---- MODULE Spec2Model ----
(***************************************************************************)
(* Model of TradingAgents-CN data services.                                *)
(*                                                                         *)
(*  - MultiSourceBasicsSyncService (app/services/                          *)
(*    multi_source_basics_sync_service.py): the stock-basics sync job,     *)
(*    its running flag, status persistence and batched bulk writes.        *)
(*  - _sync_latest_to_market_quotes (app/routers/stock_sync.py): the       *)
(*    projection of the latest historical bar into the quote store.        *)
(*                                                                         *)
(* The services run on one asyncio event loop: the code between two        *)
(* awaits that really suspend is one atomic step, and every such await is  *)
(* a point where another coroutine may run.                                *)
(***************************************************************************)
EXTENDS Integers, Sequences, FiniteSets, TLC

(***************************************************************************)
(* Bounds of the model.                                                    *)
(***************************************************************************)
\* concurrent invocations of run_full_sync
NumCallers == 2
\* rows of the stock list returned by the data source
TotalStocks == 3
\* rows per bulk write; the source uses batch_size = 500, scaled down here
BatchSize == 2
\* concurrent invocations of _sync_latest_to_market_quotes
NumProjections == 2
\* bars the historical sync may add to stock_daily_quotes
MaxBars == 2
\* trading days a bar or a quote may carry (the first NumDays of TradingDays)
NumDays == 2
\* failures the environment may inject in one behaviour: store errors and
\* timeouts, data-source failures, rows that cannot be built, cancellations
MaxFaults == 3
\* providers the health monitor probes (the first NumProviders of SourceNames)
NumProviders == 2
\* probes issued in one behaviour, over all providers
MaxProbes == 4
\* capacity of the L1 cache; the source uses LRUCache(max_size=100), scaled
\* down here
max_size == 2
\* the clock of the cache runs from 0 to MaxTime
MaxTime == 2
\* operations issued on the cache in one behaviour
MaxCacheOps == 4
\* notifications created in a run
MaxNotifications == 3
\* writes to stock_basic_info in a run
MaxWrites == 3
\* the clock of the patched requests.get runs to MaxClock quarter seconds
MaxClock == 6
\* HTTP GETs started in a run
MaxGets == 4
\* the days a run spans
MaxDays == 2
\* self.max_per_user = 1000 in the source, scaled down here
max_per_user == 1
\* self.retain_days = 90 in the source, scaled down here
retain_days == 1

(***************************************************************************)
(* Program constants.                                                      *)
(***************************************************************************)
\* _execute_bulk_write_with_retry(..., max_retries: int = 3)
max_retries == 3
\* wait_time = 2 ** retry_count
backoff_base == 2
\* "if time_since_last_request < 0.5", in quarter seconds
request_interval == 2
\* max_retries = 3 of patched_get
get_max_retries == 3
\* self.failure_threshold = 3
failure_threshold == 3
\* self.response_time_threshold = 30.0, in seconds
response_time_threshold == 30

Callers == 1..NumCallers
Projs == 1..NumProjections

VARIABLES
    \* ---- MultiSourceBasicsSyncService ----
    lock,          \* self._lock: 0 when free, else the caller holding it
    running,       \* self._running
    last_status,   \* self._last_status: {} for None, else {status dict}
    statusDoc,     \* the job's document in sync_status: {} or {status dict}
    stockStore,    \* codes present in stock_basic_info
    pc,            \* where each run_full_sync invocation stands
    force,         \* the force argument of each invocation
    stats,         \* the invocation's SyncStats
    idx,           \* rows of stock_df processed so far
    ops,           \* the pending UpdateOne operations (codes)
    errors,        \* the local error counter
    retry_count,   \* retry_count of the current _execute_bulk_write_with_retry
    slept,         \* the asyncio.sleep durations of the current bulk write
    bulk_exc,      \* what the last bulk_write attempt raised
    ret,           \* what the invocation returned or raised
    faults,        \* failures injected so far
    \* ---- _sync_latest_to_market_quotes ----
    dailyQuotes,   \* stock_daily_quotes of the symbol: a set of bars
    marketQuote,   \* market_quotes of the symbol: {} or {quote}
    qpc,           \* where each projection stands
    latest_doc,    \* the bar each projection read: {} or {bar}
    existing_quote \* the quote each projection read: {} or {quote}

syncVars == <<lock, running, last_status, statusDoc, stockStore, pc, force,
              stats, idx, ops, errors, retry_count, slept,
              bulk_exc, ret, faults>>
quoteVars == <<dailyQuotes, marketQuote, qpc, latest_doc, existing_quote>>

VARIABLES
    \* ---- DataSourceHealthMonitor ----
    metrics,       \* self.metrics: source name -> HealthMetrics
    probes,        \* probes issued so far; the clock last_check is read from
    recent         \* per source, the outcomes of its latest probes


VARIABLES
    \* ---- LRUCache and MultiLevelCache ----
    l1,            \* l1_cache.cache: the entries in OrderedDict order
    l1_hits,       \* l1_cache.hits
    l1_misses,     \* l1_cache.misses
    now,           \* time.time()
    redis,         \* the L2 store: key -> {} or {[json, expire_at]}
    redis_enabled, \* self.redis_enabled
    gets,          \* calls of LRUCache.get so far
    cache_ops,     \* operations issued on the cache so far
    recency,       \* keys by their latest successful get or set, oldest first
    invalidated,   \* keys invalidated and not set since
    cache_ret      \* the latest operation and what it returned

VARIABLES
    \* ---- DataConsistencyChecker ----
    chk_input,     \* the two datasets handed to check_daily_basic_consistency
    chk_result,    \* the DataConsistencyResult it returned, if it has
    chk_final      \* the dataset resolve_data_conflicts handed on, if it has

VARIABLES
    \* ---- NotificationsService ----
    ntf_store,     \* the notifications collection: the documents of one user
    ntf_pc,        \* where each create_and_publish call stands
    ntf_doc,       \* the document each call inserted
    ntf_skip,      \* count - max_per_user as each call computed it
    ntf_ids,       \* the ids each call collected for deletion
    ntf_ret,       \* the id each call returned
    ntf_live,      \* per call: "sent", "failed", or "none" before the attempt
    ntf_now,       \* now_tz(), in days
    ntf_next_id,   \* the next ObjectId the store hands out
    ntf_warned     \* a clean-up has raised and the call logged and ignored it

VARIABLES
    \* ---- stock_basic_info and UnifiedStockService ----
    stk_docs,       \* the stock_basic_info collection
    stk_groupings,  \* the datasource_groupings of the market
    stk_clock,      \* datetime.now(), counted in writes
    stk_op,         \* the latest operation and its argument
    stk_ret         \* what the latest get_stock_info returned

VARIABLES
    \* ---- AKShareProvider: the patched requests.get ----
    request_lock,       \* the thread inside "with request_lock", or "free"
    last_request_time,  \* last_request_time['time']
    rl_clock,           \* time.time(), in quarter seconds
    rl_pc,              \* where each thread stands in patched_get
    current_time,       \* each thread's local current_time
    attempt,            \* each thread's local attempt of the retry loop
    use_curl_cffi,      \* whether curl_cffi was imported
    rl_started,         \* when the latest HTTP GET was started, 0 for none
    rl_gets             \* HTTP GETs started so far

healthVars == <<metrics, probes, recent>>
cacheVars == <<l1, l1_hits, l1_misses, now, redis, redis_enabled, gets,
               cache_ops, recency, invalidated, cache_ret>>
checkerVars == <<chk_input, chk_result, chk_final>>
notifyVars == <<ntf_store, ntf_pc, ntf_doc, ntf_skip, ntf_ids, ntf_ret,
                ntf_live, ntf_now, ntf_next_id, ntf_warned>>
stockVars == <<stk_docs, stk_groupings, stk_clock, stk_op, stk_ret>>
rateVars == <<request_lock, last_request_time, rl_clock, rl_pc, current_time,
              attempt, use_curl_cffi, rl_started, rl_gets>>
moreVars == <<notifyVars, stockVars, rateVars>>
restVars == <<healthVars, cacheVars, checkerVars, moreVars>>
\* what the steps of one component leave alone
exceptHealth == <<syncVars, quoteVars, cacheVars, checkerVars, moreVars>>
exceptCache == <<syncVars, quoteVars, healthVars, checkerVars, moreVars>>
exceptChecker == <<syncVars, quoteVars, healthVars, cacheVars, moreVars>>
exceptNotify == <<syncVars, quoteVars, healthVars, cacheVars, checkerVars,
                  stockVars, rateVars>>
exceptStock == <<syncVars, quoteVars, healthVars, cacheVars, checkerVars,
                 notifyVars, rateVars>>
exceptRate == <<syncVars, quoteVars, healthVars, cacheVars, checkerVars,
                notifyVars, stockVars>>
vars == <<syncVars, quoteVars, restVars>>

\* check_all_sources: "tushare", "akshare", "baostock", "mongodb"
SourceNames == <<"tushare", "akshare", "baostock", "mongodb">>
Providers == {SourceNames[i] : i \in 1..NumProviders}

\* the monitor as constructed (__init__, lines 43-49): no source probed yet
HealthIdle ==
    /\ metrics = <<>>
    /\ probes = 0
    /\ recent = [s \in Providers |-> <<>>]

\* cache_policies, lines 124-130, for two of its prefixes; ttl in units of
\* 1800 s, the unit of the clock
cache_policies ==
    [stock_info |-> [ttl |-> 2, level |-> "l1"],
     user_settings |-> [ttl |-> 1, level |-> "l2"]]
Prefixes == DOMAIN cache_policies

\* the params of a cached call; NoParams is invalidate's params=None
Params == {"a"}
NoParams == "None"

\* _generate_key, lines 143-148: one key per (prefix, params); the plain keys
\* are those a caller hands to LRUCache directly
PlainKeys == {<<"key", i>> : i \in 1..(max_size + 1)}
CacheKeys == PlainKeys \cup (Prefixes \X Params)

\* what no operation has returned yet
NoCacheRet == [op |-> "none", key |-> <<>>, value |-> "None", found |-> "none",
               tier |-> "none"]

\* MultiLevelCache and its LRUCache as constructed (lines 44-48, 115-121)
CacheIdle ==
    /\ l1 = <<>>
    /\ l1_hits = 0
    /\ l1_misses = 0
    /\ now = 0
    /\ redis = [k \in Prefixes \X Params |-> {}]
    /\ redis_enabled = FALSE
    /\ gets = 0
    /\ cache_ops = 0
    /\ recency = <<>>
    /\ invalidated = {}
    /\ cache_ret = NoCacheRet

\* the metrics check_daily_basic_consistency compares (line 107)
Metrics == {"pe", "pb", "total_mv"}

\* two empty datasets
NoDatasets ==
    [primary_empty |-> TRUE, secondary_empty |-> TRUE, common_stocks |-> FALSE,
     raises |-> FALSE, averages |-> [m \in Metrics |-> {}]]

\* no DataConsistencyResult yet
NoResult ==
    [recommended_action |-> "none", confidence_score |-> [num |-> 0, den |-> 1],
     is_consistent |-> FALSE, compared |-> {}]

\* the checker before it is called
CheckerIdle ==
    /\ chk_input = NoDatasets
    /\ chk_result = NoResult
    /\ chk_final = "none"

\* two concurrent callers of create_and_publish
Notifiers == {"first", "second"}

\* no document
NoDoc == [id |-> 0, created_at |-> 0]

\* the notifications service with an empty collection and no call under way
NotifyIdle ==
    /\ ntf_store = {}
    /\ ntf_pc = [p \in Notifiers |-> "idle"]
    /\ ntf_doc = [p \in Notifiers |-> NoDoc]
    /\ ntf_skip = [p \in Notifiers |-> 0]
    /\ ntf_ids = [p \in Notifiers |-> {}]
    /\ ntf_ret = [p \in Notifiers |-> 0]
    /\ ntf_live = [p \in Notifiers |-> "none"]
    /\ ntf_now = 0
    /\ ntf_next_id = 1
    /\ ntf_warned = FALSE

\* no stock document
NoStock == [found |-> FALSE]

\* stock_basic_info empty, no grouping configured, nothing read or written
StockIdle ==
    /\ stk_docs = {}
    /\ stk_groupings = {}
    /\ stk_clock = 0
    /\ stk_op = [op |-> "none"]
    /\ stk_ret = NoStock

\* the threads that call requests.get
Threads == {"t1", "t2"}

\* requests.get patched, no request made yet
RateIdle ==
    /\ request_lock = "free"
    /\ last_request_time = 0
    /\ rl_clock = request_interval
    /\ rl_pc = [t \in Threads |-> "idle"]
    /\ current_time = [t \in Threads |-> 0]
    /\ attempt = [t \in Threads |-> 0]
    /\ use_curl_cffi = FALSE
    /\ rl_started = 0
    /\ rl_gets = 0

\* the components added after the checker at rest
MoreIdle == NotifyIdle /\ StockIdle /\ RateIdle

\* everything but the sync job and the quote projection at rest
RestIdle == HealthIdle /\ CacheIdle /\ CheckerIdle /\ MoreIdle

(***************************************************************************)
(* MultiSourceBasicsSyncService                                            *)
(***************************************************************************)
\* SyncStats as persisted: status, whether finished_at is set, errors
SyncStats(st, fin, err) == [status |-> st, finished_at |-> fin, errors |-> err]

\* get_status: {"job": JOB_KEY, "status": "never_run"}
NeverRun == [status |-> "never_run", finished_at |-> FALSE, errors |-> 0]

\* what an invocation has not returned yet / raised instead of returning
NoReturn == [status |-> "<pending>", finished_at |-> FALSE, errors |-> 0]
Raised == [status |-> "<raised>", finished_at |-> FALSE, errors |-> 0]
Cancelled == [status |-> "<cancelled>", finished_at |-> FALSE, errors |-> 0]

OpsSet(o) == {o[i] : i \in 1..Len(o)}

\* the force argument read the wrong way round
ShouldSkip_Inverted(r, f) == r /\ f

\* line 152: if self._running and not force
ShouldSkip(r, f) == r /\ ~f

\* get_status, lines 68-77, once the read of sync_status has returned
StoredStatus == IF statusDoc # {} THEN CHOOSE d \in statusDoc : TRUE ELSE NeverRun

\* line 313: "success" if errors == 0 else "success_with_errors"
FinalStatus(err) == IF err = 0 THEN "success" ELSE "success_with_errors"

\* line 130: wait_time = 2 ** retry_count
WaitTime(rc) == backoff_base ^ rc

\* no projection under way and both quote collections empty
QuotesIdle ==
    /\ dailyQuotes = {}
    /\ marketQuote = {}
    /\ qpc = [q \in Projs |-> "idle"]
    /\ latest_doc = [q \in Projs |-> {}]
    /\ existing_quote = [q \in Projs |-> {}]

InitSync ==
    /\ QuotesIdle
    /\ RestIdle
    /\ lock = 0
    /\ running = FALSE
    /\ last_status = {}
    /\ statusDoc = {}
    /\ stockStore = {}
    /\ pc = [p \in Callers |-> "idle"]
    /\ force = [p \in Callers |-> FALSE]
    /\ stats = [p \in Callers |-> SyncStats("idle", FALSE, 0)]
    /\ idx = [p \in Callers |-> 0]
    /\ ops = [p \in Callers |-> <<>>]
    /\ errors = [p \in Callers |-> 0]
    /\ retry_count = [p \in Callers |-> 0]
    /\ slept = [p \in Callers |-> <<>>]
    /\ bulk_exc = [p \in Callers |-> "none"]
    /\ ret = [p \in Callers |-> NoReturn]
    /\ faults = 0

bodyLocals == <<idx, ops, errors, retry_count, slept, bulk_exc>>

\* the locals of an invocation that has left run_full_sync are gone
Return(p, r) ==
    /\ pc' = [pc EXCEPT ![p] = "done"]
    /\ ret' = [ret EXCEPT ![p] = r]
    /\ stats' = [stats EXCEPT ![p] = SyncStats("idle", FALSE, 0)]
    /\ idx' = [idx EXCEPT ![p] = 0]
    /\ ops' = [ops EXCEPT ![p] = <<>>]
    /\ errors' = [errors EXCEPT ![p] = 0]
    /\ retry_count' = [retry_count EXCEPT ![p] = 0]
    /\ slept' = [slept EXCEPT ![p] = <<>>]
    /\ bulk_exc' = [bulk_exc EXCEPT ![p] = "none"]

\* lines 151-161 with the lock held by nobody: the check of the flag, its
\* setting and everything up to the first await that suspends
Gate(p, f) ==
    IF ShouldSkip(running, f)
    THEN IF last_status # {}
         THEN \* get_status returns self._last_status without suspending
              /\ pc' = [pc EXCEPT ![p] = "done"]
              /\ ret' = [ret EXCEPT ![p] = CHOOSE d \in last_status : TRUE]
              /\ UNCHANGED <<lock, running, stats>>
         ELSE \* get_status awaits find_one while the lock is held
              /\ pc' = [pc EXCEPT ![p] = "skip_status"]
              /\ ret' = [ret EXCEPT ![p] = NoReturn]
              /\ lock' = p
              /\ UNCHANGED <<running, stats>>
    ELSE /\ running' = TRUE
         /\ stats' = [stats EXCEPT ![p] = SyncStats("running", FALSE, 0)]
         /\ pc' = [pc EXCEPT ![p] = "persist_running"]
         /\ ret' = [ret EXCEPT ![p] = NoReturn]
         /\ UNCHANGED lock

\* run_full_sync(force=f) is called, by a caller with no invocation under way
Call(p, f) ==
    /\ pc[p] \in {"idle", "done"}
    /\ force' = [force EXCEPT ![p] = f]
    /\ IF lock # 0
       THEN /\ pc' = [pc EXCEPT ![p] = "wait_lock"]
            /\ ret' = [ret EXCEPT ![p] = NoReturn]
            /\ UNCHANGED <<lock, running, stats>>
       ELSE Gate(p, f)
    /\ UNCHANGED <<last_status, statusDoc, stockStore, bodyLocals>>

\* the lock is released and a waiting invocation acquires it (line 151)
AcquireLock(p) ==
    /\ pc[p] = "wait_lock"
    /\ lock = 0
    /\ Gate(p, force[p])
    /\ UNCHANGED <<force, last_status, statusDoc, stockStore, bodyLocals>>

\* get_status lines 71-77 for a skipped call: find_one returns, or raises
SkipStatus(p, ok) ==
    /\ pc[p] = "skip_status"
    /\ lock' = 0
    /\ pc' = [pc EXCEPT ![p] = "done"]
    /\ ret' = [ret EXCEPT ![p] = IF ok THEN StoredStatus ELSE Raised]
    /\ UNCHANGED <<running, last_status, statusDoc, stockStore, force, stats,
                   bodyLocals>>

\* _persist_status, lines 79-96: the upsert and self._last_status
Persisted(p) ==
    /\ statusDoc' = {stats[p]}
    /\ last_status' = {stats[p]}

\* line 161: the 'running' status is persisted; an exception raised here is
\* outside the try block and leaves run_full_sync at once
PersistRunning(p, ok) ==
    /\ pc[p] = "persist_running"
    /\ IF ok
       THEN /\ Persisted(p)
            /\ pc' = [pc EXCEPT ![p] = "fetch"]
            /\ UNCHANGED <<ret, stats, bodyLocals>>
       ELSE /\ Return(p, Raised)
            /\ UNCHANGED <<statusDoc, last_status>>
    /\ UNCHANGED <<lock, running, stockStore, force>>

\* lines 308-314, reached when the row loop ends
Finish(p, err) ==
    /\ stats' = [stats EXCEPT ![p] = SyncStats(FinalStatus(err), TRUE, err)]
    /\ pc' = [pc EXCEPT ![p] = "persist_final"]

\* lines 323-326: except Exception
Failed(p) ==
    /\ stats' = [stats EXCEPT ![p] = SyncStats("failed", TRUE, stats[p].errors)]
    /\ pc' = [pc EXCEPT ![p] = "persist_failed"]

\* lines 215-291: the rows after row i, up to the one at which line 291
\* flushes; bad are the rows whose document cannot be built (lines 286-288)
RECURSIVE ScanRows(_, _, _)
ScanRows(i, o, bad) ==
    IF i = TotalStocks \/ Len(o) >= BatchSize
    THEN [idx |-> i, ops |-> o]
    ELSE ScanRows(i + 1, IF (i + 1) \in bad THEN o ELSE Append(o, i + 1), bad)

\* lines 215-314 between two awaits: the row loop runs from row i to the
\* next bulk write, or to its end
RowLoop(p, i, err, bad) ==
    /\ LET nb == ScanRows(i, <<>>, bad)
           e == err + Cardinality(bad \cap ((i + 1)..nb.idx))
       IN /\ bad \subseteq (i + 1)..nb.idx
          /\ idx' = [idx EXCEPT ![p] = nb.idx]
          /\ ops' = [ops EXCEPT ![p] = nb.ops]
          /\ errors' = [errors EXCEPT ![p] = e]
          /\ IF nb.ops # <<>>
             THEN \* line 296: _execute_bulk_write_with_retry starts
                  /\ pc' = [pc EXCEPT ![p] = "bulk_write"]
                  /\ retry_count' = [retry_count EXCEPT ![p] = 0]
                  /\ slept' = [slept EXCEPT ![p] = <<>>]
                  /\ UNCHANGED stats
             ELSE /\ Finish(p, e)
                  /\ UNCHANGED <<retry_count, slept>>

\* lines 164-213: the data sources give the stock list and the row loop
\* starts, or the run fails (no adapter, no stock list)
Fetch(p, ok, bad) ==
    /\ pc[p] = "fetch"
    /\ IF ok
       THEN /\ RowLoop(p, 0, 0, bad)
            /\ UNCHANGED bulk_exc
       ELSE /\ bad = {}
            /\ Failed(p)
            /\ UNCHANGED bodyLocals
    /\ UNCHANGED <<lock, running, last_status, statusDoc, stockStore, force, ret>>

\* awaits inside the try block of lines 163-329
AwaitsInTry == {"fetch", "bulk_write", "persist_final", "persist_failed"}

\* line 129: if retry_count < max_retries, after retry_count += 1
RetryAfterTimeout(rc) == rc < max_retries

\* lines 298-304: what a batch adds to errors, given what the write returned
BatchErrors(batch_inserted, batch_updated, n) ==
    IF batch_inserted > 0 \/ batch_updated > 0 THEN 0 ELSE n

\* a failed batch ends the row loop instead of letting it go on
BatchReturned_Break(p, bi, bu, bad) ==
    IF bi = 0 /\ bu = 0
    THEN /\ bad = {}
         /\ ops' = [ops EXCEPT ![p] = <<>>]
         /\ errors' = [errors EXCEPT ![p] = @ + Len(ops[p])]
         /\ Finish(p, errors[p] + Len(ops[p]))
         /\ UNCHANGED <<idx, retry_count, slept>>
    ELSE RowLoop(p, idx[p], errors[p], bad)

\* lines 296-306: _execute_bulk_write_with_retry has returned (bi, bu); the
\* batch is accounted for and the row loop goes on
BatchReturned(p, bi, bu, bad) ==
    RowLoop(p, idx[p], errors[p] + BatchErrors(bi, bu, Len(ops[p])), bad)

\* lines 121-125: bulk_write succeeds; upserted_count counts the new codes,
\* modified_count the codes already stored whose document changes. The
\* document differs from the stored one in updated_at, unless (unchanged)
\* an overlapping run built the same documents within the same millisecond
\* and has stored them
BulkWriteOk(p, bad, unchanged) ==
    /\ pc[p] = "bulk_write"
    /\ unchanged => /\ OpsSet(ops[p]) \subseteq stockStore
                    /\ \E q \in Callers \ {p} : pc[q] \in AwaitsInTry
    /\ stockStore' = stockStore \cup OpsSet(ops[p])
    /\ bulk_exc' = [bulk_exc EXCEPT ![p] = "none"]
    /\ BatchReturned(p, Cardinality(OpsSet(ops[p]) \ stockStore),
                        IF unchanged THEN 0
                        ELSE Cardinality(OpsSet(ops[p]) \cap stockStore), bad)
    /\ UNCHANGED <<lock, running, last_status, statusDoc, force, ret>>

\* lines 127-135: bulk_write raises asyncio.TimeoutError; the handler sleeps
\* wait_time (recorded in slept) and the loop tries again, or gives up
BulkWriteTimeout(p, bad) ==
    /\ pc[p] = "bulk_write"
    /\ bulk_exc' = [bulk_exc EXCEPT ![p] = "timeout"]
    /\ IF RetryAfterTimeout(retry_count[p] + 1)
       THEN /\ bad = {}
            /\ retry_count' = [retry_count EXCEPT ![p] = @ + 1]
            /\ slept' = [slept EXCEPT ![p] = Append(@, WaitTime(retry_count[p] + 1))]
            /\ UNCHANGED <<pc, stats, idx, ops, errors>>
       ELSE BatchReturned(p, 0, 0, bad)
    /\ UNCHANGED <<lock, running, last_status, statusDoc, stockStore, force, ret>>

\* lines 137-139: bulk_write raises another exception; with ordered=False
\* some of the operations (written) may have been applied
BulkWriteError(p, written, bad) ==
    /\ pc[p] = "bulk_write"
    /\ written \subseteq OpsSet(ops[p])
    /\ stockStore' = stockStore \cup written
    /\ bulk_exc' = [bulk_exc EXCEPT ![p] = "error"]
    /\ BatchReturned(p, 0, 0, bad)
    /\ UNCHANGED <<lock, running, last_status, statusDoc, force, ret>>

\* lines 316-321: the final status is persisted and returned; if persisting
\* raises, the except block at 323 takes over
PersistFinal(p, ok) ==
    /\ pc[p] = "persist_final"
    /\ IF ok
       THEN /\ Persisted(p)
            /\ pc' = [pc EXCEPT ![p] = "finally"]
            /\ ret' = [ret EXCEPT ![p] = stats[p]]
            /\ UNCHANGED stats
       ELSE /\ Failed(p)
            /\ UNCHANGED <<statusDoc, last_status, ret>>
    /\ UNCHANGED <<lock, running, stockStore, force, bodyLocals>>

\* lines 327-329: the failed status is persisted and returned; if persisting
\* raises again, the exception leaves through the finally block
PersistFailed(p, ok) ==
    /\ pc[p] = "persist_failed"
    /\ pc' = [pc EXCEPT ![p] = "finally"]
    /\ IF ok
       THEN /\ Persisted(p)
            /\ ret' = [ret EXCEPT ![p] = stats[p]]
       ELSE /\ ret' = [ret EXCEPT ![p] = Raised]
            /\ UNCHANGED <<statusDoc, last_status>>
    /\ UNCHANGED <<lock, running, stockStore, force, stats, bodyLocals>>

\* lines 330-332: finally: async with self._lock: self._running = False,
\* then the pending return or exception leaves run_full_sync
Finally(p) ==
    /\ pc[p] = "finally"
    /\ lock = 0
    /\ running' = FALSE
    /\ Return(p, ret[p])
    /\ UNCHANGED <<lock, last_status, statusDoc, stockStore, force>>

\* awaits of _persist_status
AwaitsPersist == {"persist_running", "persist_final", "persist_failed"}

\* the task is cancelled: CancelledError is raised at the await where the
\* invocation is suspended. It is no Exception, so line 323 does not catch
\* it; inside the try block the finally block runs, at line 161 nothing does.
\* A cancelled upsert (wrote) may have reached the store all the same.
Cancel(p, wrote) ==
    /\ pc[p] \in AwaitsInTry \cup {"persist_running"}
    /\ wrote => pc[p] \in AwaitsPersist
    /\ statusDoc' = IF wrote THEN {stats[p]} ELSE statusDoc
    /\ IF pc[p] = "persist_running"
       THEN Return(p, Cancelled)
       ELSE /\ pc' = [pc EXCEPT ![p] = "finally"]
            /\ ret' = [ret EXCEPT ![p] = Cancelled]
            /\ UNCHANGED <<stats, bodyLocals>>
    /\ UNCHANGED <<lock, running, last_status, stockStore, force>>

Rows == 1..TotalStocks

\* n more failures are injected, within the budget of the behaviour
Spend(n) == faults + n <= MaxFaults /\ faults' = faults + n

Cost(ok) == IF ok THEN 0 ELSE 1

\* the rows the loop has not reached: those that may still fail
RowsLeft(p) == (idx[p] + 1)..TotalStocks

\* every step of run_full_sync after the call itself
SyncSteps ==
    \/ \E p \in Callers : AcquireLock(p) /\ Spend(0) /\ UNCHANGED <<quoteVars, restVars>>
    \/ \E p \in Callers, ok \in BOOLEAN : SkipStatus(p, ok) /\ Spend(Cost(ok)) /\ UNCHANGED <<quoteVars, restVars>>
    \/ \E p \in Callers, ok \in BOOLEAN : PersistRunning(p, ok) /\ Spend(Cost(ok)) /\ UNCHANGED <<quoteVars, restVars>>
    \/ \E p \in Callers, ok \in BOOLEAN :
          /\ pc[p] = "fetch"
          /\ \E bad \in SUBSET RowsLeft(p) :
                Spend(Cost(ok) + Cardinality(bad)) /\ Fetch(p, ok, bad)
          /\ UNCHANGED <<quoteVars, restVars>>
    \/ \E p \in Callers :
          /\ pc[p] = "bulk_write"
          /\ \E bad \in SUBSET RowsLeft(p), unchanged \in BOOLEAN :
                Spend(Cardinality(bad)) /\ BulkWriteOk(p, bad, unchanged)
          /\ UNCHANGED <<quoteVars, restVars>>
    \/ \E p \in Callers :
          /\ pc[p] = "bulk_write"
          /\ \E bad \in SUBSET RowsLeft(p) :
                Spend(1 + Cardinality(bad)) /\ BulkWriteTimeout(p, bad)
          /\ UNCHANGED <<quoteVars, restVars>>
    \/ \E p \in Callers :
          /\ pc[p] = "bulk_write"
          /\ \E bad \in SUBSET RowsLeft(p), written \in SUBSET OpsSet(ops[p]) :
                Spend(1 + Cardinality(bad)) /\ BulkWriteError(p, written, bad)
          /\ UNCHANGED <<quoteVars, restVars>>
    \/ \E p \in Callers, ok \in BOOLEAN : PersistFinal(p, ok) /\ Spend(Cost(ok)) /\ UNCHANGED <<quoteVars, restVars>>
    \/ \E p \in Callers, ok \in BOOLEAN : PersistFailed(p, ok) /\ Spend(Cost(ok)) /\ UNCHANGED <<quoteVars, restVars>>
    \/ \E p \in Callers : Finally(p) /\ Spend(0) /\ UNCHANGED <<quoteVars, restVars>>
    \/ \E p \in Callers, wrote \in BOOLEAN : Cancel(p, wrote) /\ Spend(1) /\ UNCHANGED <<quoteVars, restVars>>

\* callers may pass force=True
NextSync ==
    \/ \E p \in Callers, f \in BOOLEAN : Call(p, f) /\ Spend(0) /\ UNCHANGED <<quoteVars, restVars>>
    \/ SyncSteps

\* every caller leaves force at its default, False
NextNoForce ==
    \/ \E p \in Callers : Call(p, FALSE) /\ Spend(0) /\ UNCHANGED <<quoteVars, restVars>>
    \/ SyncSteps

SpecSync == InitSync /\ [][NextSync]_vars

SpecNoForce == InitSync /\ [][NextNoForce]_vars

(***************************************************************************)
(* _sync_latest_to_market_quotes (app/routers/stock_sync.py)               *)
(*                                                                         *)
(* A trade_date is a string, "YYYY-MM-DD" or "YYYYMMDD": a sequence of     *)
(* one-character strings here, compared as Python and MongoDB compare      *)
(* strings, by code point.                                                 *)
(***************************************************************************)
Digits == <<"0", "1", "2", "3", "4", "5", "6", "7", "8", "9">>

\* ord(c) for the characters of a trade_date
Ord(c) == IF c = "-" THEN 45 ELSE 47 + CHOOSE i \in 1..10 : Digits[i] = c

TradingDays == << <<2025, 11, 4>>, <<2025, 11, 5>>, <<2025, 10, 31>>,
                  <<2026, 1, 2>>, <<2026, 1, 5>> >>

Pad2(n) == <<Digits[(n \div 10) + 1], Digits[(n % 10) + 1]>>

\* strftime of a trading day: '%Y-%m-%d' when dashed, else '%Y%m%d'
DateString(day, dashed) ==
    LET y == Pad2(day[1] \div 100) \o Pad2(day[1] % 100)
        sep == IF dashed THEN <<"-">> ELSE <<>>
    IN y \o sep \o Pad2(day[2]) \o sep \o Pad2(day[3])

DateStrings == {DateString(TradingDays[i], f) : i \in 1..NumDays, f \in BOOLEAN}

\* prices in cents: what the historical bars close at, and what a quote
\* written by the real-time sync may carry instead
BarCloses == {950}
Closes == BarCloses \cup {1000}

\* a < b for two strings
RECURSIVE StrLess(_, _)
StrLess(a, b) ==
    IF b = <<>> THEN FALSE
    ELSE IF a = <<>> THEN TRUE
    ELSE IF Head(a) = Head(b) THEN StrLess(Tail(a), Tail(b))
    ELSE Ord(Head(a)) < Ord(Head(b))

\* the dashes are left in place
NormalizeDate_Identity(d) == d

\* lines 60-61: str(trade_date).replace("-", "")
NormalizeDate(d) == SelectSeq(d, LAMBDA c : c # "-")

\* only a strictly newer stored quote is kept
KeepExisting_Strict(existing_trade_date, historical_trade_date) ==
    StrLess(NormalizeDate(historical_trade_date), NormalizeDate(existing_trade_date))

\* line 63: existing_date_str >= historical_date_str
KeepExisting(existing_trade_date, historical_trade_date) ==
    ~StrLess(NormalizeDate(existing_trade_date), NormalizeDate(historical_trade_date))

\* lines 40-43: find_one({"symbol": symbol6}, sort=[("trade_date", -1)])
LatestBar(bars) ==
    CHOOSE b \in bars : \A o \in bars : ~StrLess(b.trade_date, o.trade_date)

\* lines 72-85: the fields of the bar that go into the quote
QuoteData(bar) == [trade_date |-> bar.trade_date, close |-> bar.close]

\* the sync job idle, as InitSync leaves it
SyncIdle ==
    /\ lock = 0
    /\ running = FALSE
    /\ last_status = {}
    /\ statusDoc = {}
    /\ stockStore = {}
    /\ pc = [p \in Callers |-> "idle"]
    /\ force = [p \in Callers |-> FALSE]
    /\ stats = [p \in Callers |-> SyncStats("idle", FALSE, 0)]
    /\ idx = [p \in Callers |-> 0]
    /\ ops = [p \in Callers |-> <<>>]
    /\ errors = [p \in Callers |-> 0]
    /\ retry_count = [p \in Callers |-> 0]
    /\ slept = [p \in Callers |-> <<>>]
    /\ bulk_exc = [p \in Callers |-> "none"]
    /\ ret = [p \in Callers |-> NoReturn]
    /\ faults = 0

\* market_quotes holds nothing for the symbol, or a quote written earlier
\* (by the real-time quote sync or an earlier projection)
InitQuote ==
    /\ SyncIdle
    /\ RestIdle
    /\ dailyQuotes = {}
    /\ marketQuote \in {{}} \cup {{[trade_date |-> d, close |-> c]} :
                                   d \in DateStrings, c \in Closes}
    /\ qpc = [q \in Projs |-> "idle"]
    /\ latest_doc = [q \in Projs |-> {}]
    /\ existing_quote = [q \in Projs |-> {}]

\* sync_historical_data (called at lines 223-228) upserts a bar of the symbol
\* into stock_daily_quotes, one bar per trade_date
InsertBar(d, c) ==
    /\ Cardinality(dailyQuotes) < MaxBars
    /\ dailyQuotes' = dailyQuotes \cup {[trade_date |-> d, close |-> c]}
    /\ dailyQuotes' # dailyQuotes
    /\ UNCHANGED <<marketQuote, qpc, latest_doc, existing_quote>>

\* where a projection stands when none is under way for the request: not yet
\* called, or returned at line 47, at line 69 or after line 98. What it read
\* last is kept until it is called again.
Returned == {"idle", "no_data", "skipped", "written"}

\* lines 36-49: the latest bar is read; without one the projection returns
ReadLatest(q) ==
    /\ qpc[q] \in Returned
    /\ existing_quote' = [existing_quote EXCEPT ![q] = {}]
    /\ IF dailyQuotes = {}
       THEN /\ latest_doc' = [latest_doc EXCEPT ![q] = {}]
            /\ qpc' = [qpc EXCEPT ![q] = "no_data"]
       ELSE /\ latest_doc' = [latest_doc EXCEPT ![q] = {LatestBar(dailyQuotes)}]
            /\ qpc' = [qpc EXCEPT ![q] = "read_quote"]
    /\ UNCHANGED <<dailyQuotes, marketQuote>>

\* lines 52-69: the stored quote is read and the two dates compared
ReadExisting(q) ==
    /\ qpc[q] = "read_quote"
    /\ existing_quote' = [existing_quote EXCEPT ![q] = marketQuote]
    /\ qpc' = [qpc EXCEPT ![q] =
                 IF \E e \in marketQuote, b \in latest_doc[q] :
                        KeepExisting(e.trade_date, b.trade_date)
                 THEN "skipped" ELSE "write"]
    /\ UNCHANGED <<dailyQuotes, marketQuote, latest_doc>>

\* lines 94-98: update_one({"code": symbol6}, {"$set": quote_data}, upsert=True)
WriteQuote(q) ==
    /\ qpc[q] = "write"
    /\ marketQuote' = {QuoteData(b) : b \in latest_doc[q]}
    /\ qpc' = [qpc EXCEPT ![q] = "written"]
    /\ UNCHANGED <<dailyQuotes, latest_doc, existing_quote>>

\* projections of concurrent requests interleave at their awaits
NextQuote ==
    \/ \E d \in DateStrings, c \in BarCloses : InsertBar(d, c) /\ UNCHANGED <<syncVars, restVars>>
    \/ \E q \in Projs : ReadLatest(q) /\ UNCHANGED <<syncVars, restVars>>
    \/ \E q \in Projs : ReadExisting(q) /\ UNCHANGED <<syncVars, restVars>>
    \/ \E q \in Projs : WriteQuote(q) /\ UNCHANGED <<syncVars, restVars>>

\* no projection is under way
NoProjection == \A q \in Projs : qpc[q] \in Returned

\* one projection at a time: each returns before the next is called
NextQuoteSeq ==
    \/ \E d \in DateStrings, c \in BarCloses : InsertBar(d, c) /\ UNCHANGED <<syncVars, restVars>>
    \/ \E q \in Projs : NoProjection /\ ReadLatest(q) /\ UNCHANGED <<syncVars, restVars>>
    \/ \E q \in Projs : ReadExisting(q) /\ UNCHANGED <<syncVars, restVars>>
    \/ \E q \in Projs : WriteQuote(q) /\ UNCHANGED <<syncVars, restVars>>

SpecQuote == InitQuote /\ [][NextQuote]_vars

SpecQuoteSeq == InitQuote /\ [][NextQuoteSeq]_vars

(***************************************************************************)
(* DataSourceHealthMonitor (tradingagents/dataflows/providers/             *)
(* health_monitor.py)                                                      *)
(*                                                                         *)
(* _update_metrics runs under self._metrics_lock and does not suspend: one *)
(* probe and the update of its source's metrics are one step.              *)
(***************************************************************************)
\* HealthMetrics() as the dataclass constructs it (lines 26-37)
NewMetrics ==
    [status |-> "unknown", success_count |-> 0, failure_count |-> 0,
     consecutive_failures |-> 0, last_response_time |-> 0, last_check |-> 0]

\* response times of a probe, in seconds: at the threshold and above it
ResponseTimes == {response_time_threshold, response_time_threshold + 1}

\* the first failed probe already marks the source unavailable
StatusAfterFailure_AtOnce(consecutive_failures) == "unavailable"

\* lines 260-263: the status a failed probe leaves
StatusAfterFailure(consecutive_failures) ==
    IF consecutive_failures >= failure_threshold THEN "unavailable" ELSE "degraded"

\* a success always gives healthy
StatusAfterSuccess_Healthy(failure_count) == "healthy"

\* lines 243-246: the status a successful probe leaves
StatusAfterSuccess(failure_count) ==
    IF failure_count = 0 THEN "healthy" ELSE "degraded"

\* lines 227-263: the metrics of a source after a probe; last_check is the
\* time of the update
UpdatedMetrics(m, success, response_time, t) ==
    IF success
    THEN [m EXCEPT !.last_check = t,
                   !.success_count = @ + 1,
                   !.consecutive_failures = 0,
                   !.last_response_time = response_time,
                   !.status = StatusAfterSuccess(m.failure_count)]
    ELSE [m EXCEPT !.last_check = t,
                   !.failure_count = @ + 1,
                   !.consecutive_failures = @ + 1,
                   !.last_response_time = response_time,
                   !.status = StatusAfterFailure(m.consecutive_failures + 1)]

\* lines 224-225: the metrics of a source, created at its first probe
MetricsOf(source_name) ==
    IF source_name \in DOMAIN metrics THEN metrics[source_name] ELSE NewMetrics

\* the latest failure_threshold outcomes of a source, the newest last
Remember(r, outcome) ==
    LET all == Append(r, outcome)
    IN IF Len(all) > failure_threshold THEN Tail(all) ELSE all

\* _check_<source>_health, lines 98-219, and _update_metrics, lines 221-263:
\* the probe returns success (or returns False, or raises) after
\* response_time seconds and the metrics of the source are updated
CheckHealth(source_name, success, response_time) ==
    /\ probes < MaxProbes
    /\ probes' = probes + 1
    /\ metrics' = [s \in DOMAIN metrics \cup {source_name} |->
                     IF s = source_name
                     THEN UpdatedMetrics(MetricsOf(s), success, response_time, probes + 1)
                     ELSE metrics[s]]
    /\ recent' = [recent EXCEPT ![source_name] =
                     Remember(@, [success |-> success, response_time |-> response_time])]

\* line 296: self.metrics.get(source_name, HealthMetrics()).status
get_health_status(source_name) == MetricsOf(source_name).status

\* lines 303-306
is_source_healthy(source_name) == get_health_status(source_name) = "healthy"

\* lines 308-311
get_unhealthy_sources == {s \in DOMAIN metrics : metrics[s].status # "healthy"}

InitHealth ==
    /\ SyncIdle
    /\ QuotesIdle
    /\ RestIdle

NextHealth ==
    \/ \E s \in Providers, rt \in ResponseTimes :
          CheckHealth(s, TRUE, rt) /\ UNCHANGED exceptHealth
    \/ \E s \in Providers, rt \in ResponseTimes :
          CheckHealth(s, FALSE, rt) /\ UNCHANGED exceptHealth

SpecHealth == InitHealth /\ [][NextHealth]_vars

(***************************************************************************)
(* LRUCache (app/utils/cache_optimizer.py)                                 *)
(*                                                                         *)
(* The cache is the OrderedDict as a sequence of entries, the least        *)
(* recently used first. Values are Python values written as their repr.    *)
(***************************************************************************)
\* Python's None
None == "None"

\* the values cached: a list and a tuple
Values == {"[1]", "(1,)"}

\* the (value, ttl) arguments of LRUCache.set
SetArgs == {<<"[1]", 1>>, <<"(1,)", 2>>}

\* the keys of the OrderedDict
KeysOf(c) == {c[i].key : i \in 1..Len(c)}

\* self.cache[key]
EntryOf(c, key) == c[CHOOSE i \in 1..Len(c) : c[i].key = key]

\* del self.cache[key]
Without(c, key) == SelectSeq(c, LAMBDA e : e.key # key)

\* an entry never expires
is_expired_Never(entry, t) == FALSE

\* CacheEntry.is_expired, lines 31-33: (time.time() - self.created_at) > self.ttl
is_expired(entry, t) == (t - entry.created_at) > entry.ttl

\* CacheEntry.__init__, lines 23-29
CacheEntry(key, value, ttl, t) ==
    [key |-> key, value |-> value, created_at |-> t, ttl |-> ttl]

\* LRUCache.get, lines 50-69: the cache after the call, what it returns and
\* what it found
LruGet(c, key, t) ==
    IF key \notin KeysOf(c)
    THEN [cache |-> c, value |-> None, found |-> "absent"]
    ELSE LET entry == EntryOf(c, key)
         IN IF is_expired(entry, t)
            THEN [cache |-> Without(c, key), value |-> None, found |-> "expired"]
            ELSE [cache |-> Append(Without(c, key), entry),
                  value |-> entry.value, found |-> "fresh"]

\* the newest entry is dropped
Evict_Newest(c) == SubSeq(c, 1, Len(c) - 1)

\* line 83: self.cache.popitem(last=False)
Evict(c) == Tail(c)

\* LRUCache.set, lines 71-87
LruSet(c, key, value, ttl, t) ==
    IF key \in KeysOf(c)
    THEN Append(Without(c, key), [EntryOf(c, key) EXCEPT !.value = value, !.ttl = ttl])
    ELSE Append(IF Len(c) >= max_size THEN Evict(c) ELSE c,
                CacheEntry(key, value, ttl, t))

\* LRUCache.delete, lines 89-92
LruDelete(c, key) == Without(c, key)

\* the miss is not counted
CountMiss_Never(misses, found) == misses

\* lines 53 and 61: self.misses += 1
CountMiss(misses, found) == IF found = "fresh" THEN misses ELSE misses + 1

\* line 67: self.hits += 1
CountHit(hits, found) == IF found = "fresh" THEN hits + 1 ELSE hits

\* key has just been got or set successfully
Touch(r, key) == Append(SelectSeq(r, LAMBDA k : k # key), key)

\* one more operation is issued
CacheOp == cache_ops < MaxCacheOps /\ cache_ops' = cache_ops + 1

\* l1_cache.get(key)
Get(key) ==
    /\ CacheOp
    /\ LET r == LruGet(l1, key, now)
       IN /\ l1' = r.cache
          /\ l1_hits' = CountHit(l1_hits, r.found)
          /\ l1_misses' = CountMiss(l1_misses, r.found)
          /\ recency' = IF r.found = "fresh" THEN Touch(recency, key) ELSE recency
          /\ cache_ret' = [op |-> "get", key |-> key, value |-> r.value,
                           found |-> r.found, tier |-> "l1"]
    /\ gets' = gets + 1
    /\ UNCHANGED <<now, redis, redis_enabled, invalidated>>

\* l1_cache.set(key, value, ttl)
Set(key, value, ttl) ==
    /\ CacheOp
    /\ l1' = LruSet(l1, key, value, ttl, now)
    /\ recency' = Touch(recency, key)
    /\ invalidated' = invalidated \ {key}
    /\ cache_ret' = [op |-> "set", key |-> key, value |-> None,
                     found |-> "none", tier |-> "l1"]
    /\ UNCHANGED <<l1_hits, l1_misses, now, redis, redis_enabled, gets>>

\* l1_cache.delete(key)
Delete(key) ==
    /\ CacheOp
    /\ l1' = LruDelete(l1, key)
    /\ cache_ret' = [op |-> "delete", key |-> key, value |-> None,
                     found |-> "none", tier |-> "l1"]
    /\ UNCHANGED <<l1_hits, l1_misses, now, redis, redis_enabled, gets,
                   recency, invalidated>>

\* l1_cache.clear(), lines 94-96
Clear ==
    /\ CacheOp
    /\ l1' = <<>>
    /\ cache_ret' = [op |-> "clear", key |-> <<>>, value |-> None,
                     found |-> "none", tier |-> "l1"]
    /\ UNCHANGED <<l1_hits, l1_misses, now, redis, redis_enabled, gets,
                   recency, invalidated>>

\* time passes
Tick ==
    /\ now < MaxTime
    /\ now' = now + 1
    /\ UNCHANGED <<l1, l1_hits, l1_misses, redis, redis_enabled, gets,
                   cache_ops, recency, invalidated, cache_ret>>

\* LRUCache.get_stats, lines 98-109
get_stats ==
    [size |-> Len(l1), max_size |-> max_size, hits |-> l1_hits, misses |-> l1_misses]

InitLRU ==
    /\ SyncIdle
    /\ QuotesIdle
    /\ RestIdle

NextLRU ==
    \/ \E k \in PlainKeys : Get(k) /\ UNCHANGED exceptCache
    \/ \E k \in PlainKeys, a \in SetArgs :
          Set(k, a[1], a[2]) /\ UNCHANGED exceptCache
    \/ \E k \in PlainKeys : Delete(k) /\ UNCHANGED exceptCache
    \/ Clear /\ UNCHANGED exceptCache
    \/ Tick /\ UNCHANGED exceptCache

SpecLRU == InitLRU /\ [][NextLRU]_vars

(***************************************************************************)
(* MultiLevelCache (app/utils/cache_optimizer.py)                          *)
(*                                                                         *)
(* L1 is the LRUCache above, L2 a Redis server other processes share: it   *)
(* may hold entries when this process starts. A cached value is never      *)
(* None: get returns None for "not cached".                                *)
(***************************************************************************)
\* json.dumps(value, default=str): a tuple is written as a JSON array
JsonDumps(value) == IF value = "(1,)" THEN "[1]" ELSE value

\* json.loads(cached): a JSON array is read as a list
JsonLoads(cached) == cached

\* the keys of a prefix
KeyOf(prefix, params) == <<prefix, params>>
L2Keys == Prefixes \X Params

\* redis_client.get(key): the value, or None once the key has expired
RedisGet(key) ==
    IF \E e \in redis[key] : now < e.expire_at
    THEN (CHOOSE e \in redis[key] : TRUE).json
    ELSE None

\* the value read from L2 is not put into L1
Promote_Nothing(c, key, value, ttl, t) == c

\* line 170: self.l1_cache.set(key, value, policy["ttl"])
Promote(c, key, value, ttl, t) == LruSet(c, key, value, ttl, t)

\* init_redis, lines 132-141: the ping succeeds or raises
InitRedis(ok) ==
    /\ redis_enabled' = ok
    /\ UNCHANGED <<l1, l1_hits, l1_misses, now, redis, gets, cache_ops, recency,
                   invalidated, cache_ret>>

\* MultiLevelCache.get, lines 150-175; ok: redis_client.get does not raise
MlcGet(prefix, params, ok) ==
    /\ CacheOp
    /\ gets' = gets + 1
    /\ LET policy == cache_policies[prefix]
           key == KeyOf(prefix, params)
           r == LruGet(l1, key, now)
           useL2 == r.value = None /\ policy.level = "l2" /\ redis_enabled
           cached == RedisGet(key)
       IN /\ ok \/ useL2
          /\ l1_hits' = CountHit(l1_hits, r.found)
          /\ l1_misses' = CountMiss(l1_misses, r.found)
          /\ IF useL2 /\ ok /\ cached # None
             THEN /\ l1' = Promote(r.cache, key, JsonLoads(cached), policy.ttl, now)
                  /\ recency' = Touch(recency, key)
                  /\ cache_ret' = [op |-> "mlc_get", key |-> key,
                                   value |-> JsonLoads(cached),
                                   found |-> r.found, tier |-> "l2"]
             ELSE /\ l1' = r.cache
                  /\ recency' = IF r.found = "fresh" THEN Touch(recency, key) ELSE recency
                  /\ cache_ret' = [op |-> "mlc_get", key |-> key, value |-> r.value,
                                   found |-> r.found,
                                   tier |-> IF r.value # None THEN "l1"
                                            ELSE IF useL2 /\ ~ok THEN "error"
                                            ELSE "miss"]
    /\ UNCHANGED <<now, redis, redis_enabled, invalidated>>

\* MultiLevelCache.set, lines 177-196; ok: redis_client.setex does not raise
MlcSet(prefix, params, value, ok) ==
    /\ CacheOp
    /\ LET policy == cache_policies[prefix]
           key == KeyOf(prefix, params)
           useL2 == policy.level = "l2" /\ redis_enabled
       IN /\ ok \/ useL2
          /\ l1' = LruSet(l1, key, value, policy.ttl, now)
          /\ redis' = IF useL2 /\ ok
                      THEN [redis EXCEPT ![key] =
                              {[json |-> JsonDumps(value), expire_at |-> now + policy.ttl]}]
                      ELSE redis
          /\ recency' = Touch(recency, key)
          /\ invalidated' = invalidated \ {key}
          /\ cache_ret' = [op |-> "mlc_set", key |-> key, value |-> None,
                           found |-> "none", tier |-> "none"]
    /\ UNCHANGED <<l1_hits, l1_misses, now, redis_enabled, gets>>

\* line 213: the keys of L1 that start with the prefix
KeysToDelete(prefix) == {k \in KeysOf(l1) : k[1] = prefix}

\* MultiLevelCache.invalidate, lines 198-215; ok: redis_client.delete does
\* not raise
Invalidate(prefix, params, ok) ==
    /\ CacheOp
    /\ IF params # NoParams
       THEN LET key == KeyOf(prefix, params)
            IN /\ ok \/ redis_enabled
               /\ l1' = LruDelete(l1, key)
               /\ redis' = IF redis_enabled /\ ok
                           THEN [redis EXCEPT ![key] = {}] ELSE redis
               /\ invalidated' = invalidated \cup {key}
               /\ cache_ret' = [op |-> "invalidate", key |-> key, value |-> None,
                                found |-> "none", tier |-> "none"]
       ELSE /\ ok
            /\ l1' = SelectSeq(l1, LAMBDA e : e.key \notin KeysToDelete(prefix))
            /\ redis' = redis
            /\ invalidated' = invalidated \cup {k \in L2Keys : k[1] = prefix}
            /\ cache_ret' = [op |-> "invalidate", key |-> <<prefix>>, value |-> None,
                             found |-> "none", tier |-> "none"]
    /\ UNCHANGED <<l1_hits, l1_misses, now, redis_enabled, gets, recency>>

\* what L2 may hold for a key when the process starts
RedisEntries ==
    {{}} \cup {{[json |-> JsonDumps(v), expire_at |-> t]} : v \in Values, t \in 1..MaxTime}

InitCache ==
    /\ SyncIdle
    /\ QuotesIdle
    /\ HealthIdle
    /\ CheckerIdle
    /\ MoreIdle
    /\ l1 = <<>>
    /\ l1_hits = 0
    /\ l1_misses = 0
    /\ now = 0
    /\ redis \in [L2Keys -> RedisEntries]
    /\ \A k \in L2Keys : cache_policies[k[1]].level # "l2" => redis[k] = {}
    /\ redis_enabled = FALSE
    /\ gets = 0
    /\ cache_ops = 0
    /\ recency = <<>>
    /\ invalidated = {}
    /\ cache_ret = NoCacheRet

NextCache ==
    \/ \E ok \in BOOLEAN : InitRedis(ok) /\ UNCHANGED exceptCache
    \/ \E prefix \in Prefixes, params \in Params, ok \in BOOLEAN :
          MlcGet(prefix, params, ok) /\ UNCHANGED exceptCache
    \/ \E prefix \in Prefixes, params \in Params, v \in Values, ok \in BOOLEAN :
          MlcSet(prefix, params, v, ok) /\ UNCHANGED exceptCache
    \/ \E prefix \in Prefixes, params \in Params \cup {NoParams}, ok \in BOOLEAN :
          Invalidate(prefix, params, ok) /\ UNCHANGED exceptCache
    \/ Tick /\ UNCHANGED exceptCache

SpecCache == InitCache /\ [][NextCache]_vars

(***************************************************************************)
(* DataConsistencyChecker (app/services/data_consistency_checker.py)       *)
(*                                                                         *)
(* Relative differences and tolerances are counted in units of 0.1 %,      *)
(* weights and per-metric scores in hundredths. A confidence score is the  *)
(* fraction num / den. The datasets are given by what the checker reads    *)
(* from them: whether they are empty, whether they share a stock, and per  *)
(* metric the two averages over the shared stocks.                         *)
(***************************************************************************)
\* self.tolerance_thresholds, lines 40-47
tolerance_thresholds ==
    [pe |-> 50, pb |-> 50, total_mv |-> 20, price |-> 10, volume |-> 100,
     turnover_rate |-> 50]

\* self.metric_weights, lines 50-57
metric_weights ==
    [pe |-> 25, pb |-> 25, total_mv |-> 20, price |-> 15, volume |-> 10,
     turnover_rate |-> 5]

\* float('inf')
Inf == 1000000

Abs(x) == IF x < 0 THEN 0 - x ELSE x

Max(a, b) == IF a >= b THEN a ELSE b

\* lines 180-183: diff_pct of the two averages
DiffPct(avg1, avg2) ==
    IF avg1 # 0
    THEN (1000 * Abs(avg2 - avg1)) \div Abs(avg1)
    ELSE IF avg2 # 0 THEN Inf ELSE 0

\* _compare_metric, lines 149-199: the comparison of a metric, or none when
\* the metric is missing or no shared stock has a value for it
CompareMetric(averages, metric) ==
    {[metric_name |-> metric,
      difference_pct |-> DiffPct(a[1], a[2]),
      tolerance |-> tolerance_thresholds[metric],
      is_significant |-> DiffPct(a[1], a[2]) > tolerance_thresholds[metric]] :
        a \in averages[metric]}

\* ConsistencyScore without the max(0, ...): a difference beyond the
\* tolerance gives a negative score
ConsistencyScore_Unclamped(comp) ==
    IF comp.difference_pct # Inf
    THEN 100 - (100 * comp.difference_pct) \div comp.tolerance
    ELSE 0

\* lines 245-248: consistency_score of a comparison
ConsistencyScore(comp) ==
    IF comp.difference_pct # Inf
    THEN Max(0, 100 - (100 * comp.difference_pct) \div comp.tolerance)
    ELSE 0

\* lines 240-250: weighted_score over the comparisons
RECURSIVE WeightedScore(_)
WeightedScore(comparisons) ==
    IF comparisons = {} THEN 0
    ELSE LET comp == CHOOSE c \in comparisons : TRUE
         IN metric_weights[comp.metric_name] * ConsistencyScore(comp)
            + WeightedScore(comparisons \ {comp})

\* lines 240-242: total_weight over the comparisons
RECURSIVE TotalWeight(_)
TotalWeight(comparisons) ==
    IF comparisons = {} THEN 0
    ELSE LET comp == CHOOSE c \in comparisons : TRUE
         IN metric_weights[comp.metric_name] + TotalWeight(comparisons \ {comp})

\* score > tenths / 10
Above(score, tenths) == 10 * score.num > tenths * score.den

\* lines 268-275: the recommended action of a confidence score
RecommendedAction(score) ==
    IF Above(score, 8) THEN "use_either"
    ELSE IF Above(score, 6) THEN "use_primary_with_warning"
    ELSE IF Above(score, 3) THEN "use_primary_only"
    ELSE "investigate_sources"

\* lines 80-88, 93-101, 123-131 and 225-233: the result returned when there
\* is nothing to compare or the check raised
NothingCompared ==
    [recommended_action |-> "use_primary_only",
     confidence_score |-> [num |-> 0, den |-> 1],
     is_consistent |-> FALSE, compared |-> {}]

\* ConfidenceScore without the division by total_weight
ConfidenceScore_Unnormalised(comparisons) ==
    [num |-> WeightedScore(comparisons), den |-> 10000]

\* line 261: weighted_score / total_weight
ConfidenceScore(comparisons) ==
    [num |-> WeightedScore(comparisons), den |-> 100 * TotalWeight(comparisons)]

\* _calculate_overall_consistency, lines 217-289
CalculateOverallConsistency(comparisons) ==
    IF comparisons = {}
    THEN NothingCompared
    ELSE [recommended_action |-> RecommendedAction(ConfidenceScore(comparisons)),
          confidence_score |-> ConfidenceScore(comparisons),
          is_consistent |->
              10 * Cardinality({c \in comparisons : c.is_significant})
                 <= 3 * Cardinality(comparisons),
          compared |-> comparisons]

\* check_daily_basic_consistency, lines 59-131
CheckDailyBasicConsistency(input) ==
    IF input.raises \/ input.primary_empty \/ input.secondary_empty
       \/ ~input.common_stocks
    THEN NothingCompared
    ELSE CalculateOverallConsistency(
             UNION {CompareMetric(input.averages, m) : m \in Metrics})

\* the averages of a metric in the two datasets: none, or primary and
\* secondary
AveragePairs == {{}} \cup {{<<a1, a2>>} : a1 \in {0, 1000},
                                         a2 \in {0, 1000, 1010, 1025, 1050, 1200}}

\* the datasets the checker is called with
Datasets ==
    {[primary_empty |-> FALSE, secondary_empty |-> FALSE, common_stocks |-> TRUE,
      raises |-> FALSE, averages |-> a] : a \in [Metrics -> AveragePairs]}
    \cup {[NoDatasets EXCEPT !.primary_empty = pe, !.secondary_empty = se,
                             !.common_stocks = cs, !.raises = r] :
             pe, se, cs, r \in BOOLEAN}

\* check_daily_basic_consistency returns
Check ==
    /\ chk_result = NoResult
    /\ chk_result' = CheckDailyBasicConsistency(chk_input)
    /\ UNCHANGED <<chk_input, chk_final>>

\* resolve_data_conflicts, lines 291-319: every branch returns primary_data
ResolveDataConflicts(result) ==
    IF result.recommended_action = "use_either" THEN "primary"
    ELSE IF result.recommended_action = "use_primary_with_warning" THEN "primary"
    ELSE IF result.recommended_action = "use_primary_only" THEN "primary"
    ELSE "primary"

\* resolve_data_conflicts returns
Resolve ==
    /\ chk_result # NoResult
    /\ chk_final = "none"
    /\ chk_final' = ResolveDataConflicts(chk_result)
    /\ UNCHANGED <<chk_input, chk_result>>

InitChecker ==
    /\ SyncIdle
    /\ QuotesIdle
    /\ HealthIdle
    /\ CacheIdle
    /\ MoreIdle
    /\ chk_input \in Datasets
    /\ chk_result = NoResult
    /\ chk_final = "none"

NextChecker ==
    \/ Check /\ UNCHANGED exceptChecker
    \/ Resolve /\ UNCHANGED exceptChecker

SpecChecker == InitChecker /\ [][NextChecker]_vars

(***************************************************************************)
(* NotificationsService (app/services/notifications_service.py)            *)
(*                                                                         *)
(* The collection holds the documents of one user: every query of          *)
(* create_and_publish and list filters on user_id. Time is counted in      *)
(* days; a call lasts well under a day, so the day changes between calls.  *)
(* Each operation of the clean-up may raise, which the call logs and       *)
(* ignores (lines 86-87).                                                  *)
(***************************************************************************)
\* lines 37-50: insert_one of the new document
Insert(p) ==
    /\ ntf_pc[p] \in {"idle", "done"}
    /\ ntf_next_id <= MaxNotifications
    /\ LET doc == [id |-> ntf_next_id, created_at |-> ntf_now]
       IN /\ ntf_store' = ntf_store \cup {doc}
          /\ ntf_doc' = [ntf_doc EXCEPT ![p] = doc]
    /\ ntf_next_id' = ntf_next_id + 1
    /\ ntf_pc' = [ntf_pc EXCEPT ![p] = "inserted"]
    /\ ntf_live' = [ntf_live EXCEPT ![p] = "none"]
    /\ ntf_ret' = [ntf_ret EXCEPT ![p] = 0]
    /\ ntf_skip' = [ntf_skip EXCEPT ![p] = 0]
    /\ ntf_ids' = [ntf_ids EXCEPT ![p] = {}]
    /\ UNCHANGED <<ntf_now, ntf_warned>>

\* Publish before the insert: the delivery is attempted first and the
\* document stored only when it was sent
Publish_BeforeInsert(p, ok) ==
    /\ ntf_pc[p] = "inserted"
    /\ ntf_live' = [ntf_live EXCEPT ![p] = IF ok THEN "sent" ELSE "failed"]
    /\ ntf_pc' = [ntf_pc EXCEPT ![p] = "published"]
    /\ ntf_store' = IF ok THEN ntf_store ELSE ntf_store \ {ntf_doc[p]}
    /\ UNCHANGED <<ntf_doc, ntf_skip, ntf_ids, ntf_ret, ntf_now, ntf_next_id,
                   ntf_warned>>

\* lines 63-69: send_notification_via_websocket, its exception logged
Publish(p, ok) ==
    /\ ntf_pc[p] = "inserted"
    /\ ntf_live' = [ntf_live EXCEPT ![p] = IF ok THEN "sent" ELSE "failed"]
    /\ ntf_pc' = [ntf_pc EXCEPT ![p] = "published"]
    /\ UNCHANGED <<ntf_store, ntf_doc, ntf_skip, ntf_ids, ntf_ret, ntf_now,
                   ntf_next_id, ntf_warned>>

\* line 75: created_at < now - retain_days
Expired(doc, t) == doc.created_at < t - retain_days

\* lines 73-76: delete_many of the documents past retain_days
DeleteExpired(p, ok) ==
    /\ ntf_pc[p] = "published"
    /\ IF ok
       THEN /\ ntf_store' = {d \in ntf_store : ~Expired(d, ntf_now)}
            /\ ntf_pc' = [ntf_pc EXCEPT ![p] = "aged"]
       ELSE /\ ntf_pc' = [ntf_pc EXCEPT ![p] = "cleaned"]
            /\ UNCHANGED ntf_store
    /\ ntf_warned' = (ntf_warned \/ ~ok)
    /\ UNCHANGED <<ntf_doc, ntf_skip, ntf_ids, ntf_ret, ntf_live, ntf_now,
                   ntf_next_id>>

\* lines 78-80: count_documents and skip = count - max_per_user
Count(p, ok) ==
    /\ ntf_pc[p] = "aged"
    /\ LET count == Cardinality(ntf_store)
       IN IF ok /\ count > max_per_user
          THEN /\ ntf_skip' = [ntf_skip EXCEPT ![p] = count - max_per_user]
               /\ ntf_pc' = [ntf_pc EXCEPT ![p] = "counted"]
          ELSE /\ ntf_pc' = [ntf_pc EXCEPT ![p] = "cleaned"]
               /\ UNCHANGED ntf_skip
    /\ ntf_warned' = (ntf_warned \/ ~ok)
    /\ UNCHANGED <<ntf_store, ntf_doc, ntf_ids, ntf_ret, ntf_live, ntf_now,
                   ntf_next_id>>

\* OldestSets with the sort descending: the newest skip documents
OldestSets_Newest(store, skip) ==
    {S \in SUBSET store :
        /\ Cardinality(S) = IF skip < Cardinality(store)
                            THEN skip ELSE Cardinality(store)
        /\ \A d \in S, e \in store \ S : d.created_at >= e.created_at}

\* line 82: find().sort("created_at", 1).limit(skip): the first skip
\* documents of some ascending order, documents of one created_at in any
\* order
OldestSets(store, skip) ==
    {S \in SUBSET store :
        /\ Cardinality(S) = IF skip < Cardinality(store)
                            THEN skip ELSE Cardinality(store)
        /\ \A d \in S, e \in store \ S : d.created_at <= e.created_at}

\* lines 81-83: the ids of the oldest skip documents
Find(p, ok) ==
    /\ ntf_pc[p] = "counted"
    /\ IF ok
       THEN /\ \E S \in OldestSets(ntf_store, ntf_skip[p]) :
                  ntf_ids' = [ntf_ids EXCEPT ![p] = {d.id : d \in S}]
            /\ ntf_pc' = [ntf_pc EXCEPT ![p] = "found"]
       ELSE /\ ntf_pc' = [ntf_pc EXCEPT ![p] = "cleaned"]
            /\ UNCHANGED ntf_ids
    /\ ntf_warned' = (ntf_warned \/ ~ok)
    /\ UNCHANGED <<ntf_store, ntf_doc, ntf_skip, ntf_ret, ntf_live, ntf_now,
                   ntf_next_id>>

\* lines 84-85: delete_many of the collected ids
DeleteIds(p, ok) ==
    /\ ntf_pc[p] = "found"
    /\ ntf_store' = IF ok
                    THEN {d \in ntf_store : d.id \notin ntf_ids[p]}
                    ELSE ntf_store
    /\ ntf_pc' = [ntf_pc EXCEPT ![p] = "cleaned"]
    /\ ntf_warned' = (ntf_warned \/ ~ok)
    /\ UNCHANGED <<ntf_doc, ntf_skip, ntf_ids, ntf_ret, ntf_live, ntf_now,
                   ntf_next_id>>

\* line 89: return doc_id
ReturnDocId(p) ==
    /\ ntf_pc[p] = "cleaned"
    /\ ntf_ret' = [ntf_ret EXCEPT ![p] = ntf_doc[p].id]
    /\ ntf_pc' = [ntf_pc EXCEPT ![p] = "done"]
    /\ UNCHANGED <<ntf_store, ntf_doc, ntf_skip, ntf_ids, ntf_live, ntf_now,
                   ntf_next_id, ntf_warned>>

\* lines 95-116: the ids list returns for the user over all its pages, no
\* status or type filter given
List == {d.id : d \in ntf_store}

\* now_tz() moves on to the next day, no call under way
NextDay ==
    /\ ntf_now < MaxDays
    /\ \A p \in Notifiers : ntf_pc[p] \in {"idle", "done"}
    /\ ntf_now' = ntf_now + 1
    /\ UNCHANGED <<ntf_store, ntf_pc, ntf_doc, ntf_skip, ntf_ids, ntf_ret,
                   ntf_live, ntf_next_id, ntf_warned>>

InitNotify ==
    /\ SyncIdle
    /\ QuotesIdle
    /\ HealthIdle
    /\ CacheIdle
    /\ CheckerIdle
    /\ NotifyIdle
    /\ StockIdle
    /\ RateIdle

NextNotify ==
    \/ \E p \in Notifiers : Insert(p) /\ UNCHANGED exceptNotify
    \/ \E p \in Notifiers, ok \in BOOLEAN : Publish(p, ok) /\ UNCHANGED exceptNotify
    \/ \E p \in Notifiers, ok \in BOOLEAN : DeleteExpired(p, ok) /\ UNCHANGED exceptNotify
    \/ \E p \in Notifiers, ok \in BOOLEAN : Count(p, ok) /\ UNCHANGED exceptNotify
    \/ \E p \in Notifiers, ok \in BOOLEAN : Find(p, ok) /\ UNCHANGED exceptNotify
    \/ \E p \in Notifiers, ok \in BOOLEAN : DeleteIds(p, ok) /\ UNCHANGED exceptNotify
    \/ \E p \in Notifiers : ReturnDocId(p) /\ UNCHANGED exceptNotify
    \/ NextDay /\ UNCHANGED exceptNotify

SpecNotify == InitNotify /\ [][NextNotify]_vars

(***************************************************************************)
(* stock_basic_info: the upsert of the basics sync, and the read of        *)
(* UnifiedStockService (app/services/unified_stock_service.py)             *)
(*                                                                         *)
(* One market and one stock code. A document carries its id, its source,   *)
(* its name for the fields the providers deliver, and updated_at.          *)
(***************************************************************************)
\* the providers that write basic info
StockSources == {"tushare", "akshare"}

\* the values a provider delivers for the fields of the stock
StockNames == {"PAB", "PingAn"}

\* the priorities a grouping is configured with
Priorities == {1, 2}

\* default_priority["CN"], lines 135-139
default_priority == <<"tushare", "akshare", "baostock">>

\* the datasource_groupings of the market: per provider none or one, with
\* its priority and whether it is enabled
Groupings ==
    {G \in SUBSET [data_source_name : StockSources, priority : Priorities,
                   enabled : BOOLEAN] :
        \A g, h \in G : g.data_source_name = h.data_source_name => g = h}

\* the documents a filter on the source matches
Matching(docs, source) == {d \in docs : d.source = source}

\* UpdateOneUpsert as an insert_one: a new document whatever is stored
UpdateOneUpsert_InsertOne(docs, source, name, t) ==
    {docs \cup {[id |-> Cardinality(docs) + 1, source |-> source,
                 name |-> name, updated_at |-> t]}}

\* UpdateOne({"code", "source"}, {"$set": doc}, upsert=True),
\* multi_source_basics_sync_service.py line 283 and stock_sync.py lines
\* 650-654: one matching document takes the fields, or a new one is
\* inserted
UpdateOneUpsert(docs, source, name, t) ==
    IF Matching(docs, source) # {}
    THEN {(docs \ {d}) \cup {[d EXCEPT !.name = name, !.updated_at = t]} :
             d \in Matching(docs, source)}
    ELSE {docs \cup {[id |-> Cardinality(docs) + 1, source |-> source,
                      name |-> name, updated_at |-> t]}}

\* a provider's record of the stock is written
Upsert(source, name) ==
    /\ stk_clock < MaxWrites
    /\ stk_clock' = stk_clock + 1
    /\ stk_docs' \in UpdateOneUpsert(stk_docs, source, name, stk_clock + 1)
    /\ stk_op' = [op |-> "upsert", source |-> source, name |-> name,
                  again |-> \E d \in Matching(stk_docs, source) : d.name = name]
    /\ UNCHANGED <<stk_groupings, stk_ret>>

\* the sequences that list the groupings by descending priority,
\* groupings of one priority in any order (line 125)
RECURSIVE SortedDescending(_)
SortedDescending(G) ==
    IF G = {} THEN {<<>>}
    ELSE UNION {{<<g.data_source_name>> \o rest :
                    rest \in SortedDescending(G \ {g})} :
                g \in {x \in G : \A y \in G : x.priority >= y.priority}}

\* _get_source_priority, lines 102-142
SourcePriority(groupings, ok) ==
    LET enabled == {g \in groupings : g.enabled}
    IN IF ok /\ enabled # {}
       THEN SortedDescending(enabled)
       ELSE {default_priority}

\* lines 87-92: the document of the first source of the list that has one
RECURSIVE FirstFound(_, _)
FirstFound(docs, source_priority) ==
    IF source_priority = <<>> THEN {}
    ELSE IF Matching(docs, Head(source_priority)) # {}
         THEN Matching(docs, Head(source_priority))
         ELSE FirstFound(docs, Tail(source_priority))

\* find_one's answer over a set of documents
Answer(docs) ==
    IF docs = {} THEN {NoStock}
    ELSE {[found |-> TRUE, source |-> d.source, name |-> d.name] : d \in docs}

\* get_stock_info without a source, lines 82-100
GetByPriority(docs, groupings, ok) ==
    UNION {IF FirstFound(docs, sp) # {}
           THEN Answer(FirstFound(docs, sp))
           ELSE Answer(docs) : sp \in SourcePriority(groupings, ok)}

\* get_stock_info, lines 56-100; source "None" for no source given
GetStockInfo(source, ok) ==
    /\ stk_ret' \in IF source # "None"
                    THEN Answer(Matching(stk_docs, source))
                    ELSE GetByPriority(stk_docs, stk_groupings, ok)
    /\ stk_op' = [op |-> "get", source |-> source, ok |-> ok]
    /\ UNCHANGED <<stk_docs, stk_groupings, stk_clock>>

InitStock ==
    /\ SyncIdle
    /\ QuotesIdle
    /\ HealthIdle
    /\ CacheIdle
    /\ CheckerIdle
    /\ NotifyIdle
    /\ RateIdle
    /\ stk_docs = {}
    /\ stk_groupings \in Groupings
    /\ stk_clock = 0
    /\ stk_op = [op |-> "none"]
    /\ stk_ret = NoStock

NextStock ==
    \/ \E source \in StockSources, name \in StockNames :
          Upsert(source, name) /\ UNCHANGED exceptStock
    \/ \E source \in StockSources \cup {"None"}, ok \in BOOLEAN :
          GetStockInfo(source, ok) /\ UNCHANGED exceptStock

SpecStock == InitStock /\ [][NextStock]_vars

(***************************************************************************)
(* AKShareProvider._initialize_akshare.patched_get                         *)
(* (tradingagents/dataflows/providers/china/akshare.py), for a URL of      *)
(* eastmoney.com                                                           *)
(*                                                                         *)
(* Time is counted in quarter seconds. The threads run as the scheduler    *)
(* lets them: between two statements of a thread any time may pass.        *)
(***************************************************************************)
\* lines 75-76: "with request_lock" entered and current_time read
EnterGate(t) ==
    /\ rl_pc[t] = "idle"
    /\ rl_gets < MaxGets
    /\ request_lock = "free"
    /\ request_lock' = t
    /\ current_time' = [current_time EXCEPT ![t] = rl_clock]
    /\ rl_pc' = [rl_pc EXCEPT ![t] = "gate"]
    /\ UNCHANGED <<last_request_time, rl_clock, attempt, use_curl_cffi,
                   rl_started, rl_gets>>

\* lines 77-79: the sleep for what is missing to the interval
SleepTime(t) ==
    LET time_since_last_request == current_time[t] - last_request_time
    IN IF time_since_last_request < request_interval
       THEN request_interval - time_since_last_request
       ELSE 0

\* lines 77-80: sleep, stamp last_request_time, leave the lock
LeaveGate(t) ==
    /\ rl_pc[t] = "gate"
    /\ rl_clock + SleepTime(t) <= MaxClock
    /\ rl_clock' = rl_clock + SleepTime(t)
    /\ last_request_time' = rl_clock + SleepTime(t)
    /\ request_lock' = "free"
    /\ rl_pc' = [rl_pc EXCEPT ![t] = IF use_curl_cffi THEN "curl" ELSE "get"]
    /\ UNCHANGED <<current_time, attempt, use_curl_cffi, rl_started, rl_gets>>

\* lines 83-109: curl_requests.get, which returns the response or raises
CurlGet(t, ok) ==
    /\ rl_pc[t] = "curl"
    /\ rl_started' = rl_clock
    /\ rl_gets' = rl_gets + 1
    /\ rl_pc' = [rl_pc EXCEPT ![t] = IF ok THEN "idle" ELSE "get"]
    /\ UNCHANGED <<request_lock, last_request_time, rl_clock, current_time,
                   attempt, use_curl_cffi>>

\* lines 133-150: original_get in the retry loop; after an SSL error that
\* is not the last attempt's the thread sleeps 0.5 * (attempt + 1) seconds
\* and tries again, otherwise the call returns or raises
OriginalGet(t, ssl_error) ==
    /\ rl_pc[t] = "get"
    /\ rl_started' = rl_clock
    /\ rl_gets' = rl_gets + 1
    /\ IF ssl_error /\ attempt[t] < get_max_retries - 1
       THEN /\ rl_clock + request_interval * (attempt[t] + 1) <= MaxClock
            /\ rl_clock' = rl_clock + request_interval * (attempt[t] + 1)
            /\ attempt' = [attempt EXCEPT ![t] = attempt[t] + 1]
            /\ UNCHANGED rl_pc
       ELSE /\ rl_pc' = [rl_pc EXCEPT ![t] = "idle"]
            /\ attempt' = [attempt EXCEPT ![t] = 0]
            /\ UNCHANGED rl_clock
    /\ UNCHANGED <<request_lock, last_request_time, current_time,
                   use_curl_cffi>>

\* time.time() moves on a quarter second
ClockTick ==
    /\ rl_clock < MaxClock
    /\ rl_clock' = rl_clock + 1
    /\ UNCHANGED <<request_lock, last_request_time, rl_pc, current_time,
                   attempt, use_curl_cffi, rl_started, rl_gets>>

InitRate ==
    /\ SyncIdle
    /\ QuotesIdle
    /\ HealthIdle
    /\ CacheIdle
    /\ CheckerIdle
    /\ NotifyIdle
    /\ StockIdle
    /\ request_lock = "free"
    /\ last_request_time = 0
    /\ rl_clock = request_interval
    /\ rl_pc = [t \in Threads |-> "idle"]
    /\ current_time = [t \in Threads |-> 0]
    /\ attempt = [t \in Threads |-> 0]
    /\ use_curl_cffi \in BOOLEAN
    /\ rl_started = 0
    /\ rl_gets = 0

NextRate ==
    \/ \E t \in Threads : EnterGate(t) /\ UNCHANGED exceptRate
    \/ \E t \in Threads : LeaveGate(t) /\ UNCHANGED exceptRate
    \/ \E t \in Threads, ok \in BOOLEAN : CurlGet(t, ok) /\ UNCHANGED exceptRate
    \/ \E t \in Threads, ssl_error \in BOOLEAN :
          OriginalGet(t, ssl_error) /\ UNCHANGED exceptRate
    \/ ClockTick /\ UNCHANGED exceptRate

SpecRate == InitRate /\ [][NextRate]_vars

Init == InitSync

Next ==
    NextSync \/ NextQuote \/ NextHealth \/ NextLRU \/ NextCache \/ NextChecker
    \/ NextNotify \/ NextStock \/ NextRate

Spec == Init /\ [][Next]_vars

(***************************************************************************)
(* Properties of the sync job                                              *)
(***************************************************************************)
\* the invocation has set the running flag and not reached its finally block
InProgress(p) == pc[p] \in AwaitsInTry \cup {"persist_running"}

\* the invocation is anywhere between setting the flag and clearing it
InRun(p) == InProgress(p) \/ pc[p] = "finally"

\* a step in which p passes line 152, to skip or to start a run
GateStep(p) ==
    \/ pc[p] \in {"idle", "wait_lock"} /\ pc'[p] \in {"persist_running", "skip_status", "done"}
    \/ pc[p] = "done" /\ pc'[p] \in {"persist_running", "skip_status"}

\* a step in which p's bulk write ends: the batch is written or given up
BatchEnds(p) == pc[p] = "bulk_write" /\ ops'[p] # ops[p]

FinalStatuses == {"success", "success_with_errors", "failed"}

\* C1: while a run is in progress (flag set, finally not reached), a call
\* run_full_sync(force=false) starts no new run: it writes neither the stock
\* store nor the status store and ends by returning a status. Stated for the
\* behaviours in which nothing has failed.
C1_NoNewRunWhileInProgress ==
    [][\A p \in Callers :
          (/\ faults = 0
           /\ GateStep(p)
           /\ ~force'[p]
           /\ \E q \in Callers \ {p} : InProgress(q))
          => /\ pc'[p] \in {"done", "skip_status"}
             /\ stockStore' = stockStore
             /\ statusDoc' = statusDoc]_vars

\* C2: when every call leaves force at false, at most one invocation is
\* between setting the running flag and clearing it.
C2_AtMostOneRun == Cardinality({p \in Callers : InRun(p)}) <= 1

\* C2 witness: one invocation is writing a batch while another call has been
\* skipped and has returned the 'running' status.
C2_Witness ==
    \E p, q \in Callers :
        /\ p # q
        /\ pc[p] = "bulk_write"
        /\ pc[q] = "done"
        /\ ret[q].status = "running"

\* C3: every invocation that set the running flag has cleared it when it has
\* left run_full_sync: with no invocation under way the flag is down.
C3_FlagClearedOnExit == (\A p \in Callers : ~InRun(p)) => ~running

\* C7: a batch given up after its timeouts has waited 2 s, 4 s and 8 s, and
\* all its records are added to the error count.
C7_BackoffSchedule ==
    [][\A p \in Callers :
          (BatchEnds(p) /\ bulk_exc'[p] = "timeout")
          => /\ slept[p] = <<2, 4, 8>>
             /\ errors'[p] >= errors[p] + Len(ops[p])]_vars

\* C8: a batch given up on a store error other than a timeout has been tried
\* three times.
C8_StoreErrorRetried ==
    [][\A p \in Callers :
          (BatchEnds(p) /\ bulk_exc'[p] = "error")
          => retry_count[p] + 1 >= max_retries]_vars

\* C9: a batch whose write has failed adds its size to the error count and
\* nothing else happens to the run: the row loop goes on to the next batch,
\* and at its end every row has been processed and the status is
\* success_with_errors; the failed path is entered only before the first row
\* or after the last.
C9_FailedBatchDoesNotAbort ==
    /\ [][\A p \in Callers :
            (BatchEnds(p) /\ bulk_exc'[p] # "none")
            => /\ pc'[p] \in {"bulk_write", "persist_final"}
               /\ errors'[p] = errors[p] + Len(ops[p])
                               + ((idx'[p] - idx[p]) - Len(ops'[p]))
               /\ pc'[p] = "bulk_write" => (ops'[p] # <<>> /\ idx'[p] > idx[p])
               /\ pc'[p] = "persist_final" =>
                     /\ idx'[p] = TotalStocks
                     /\ stats'[p].status = "success_with_errors"
                     /\ stats'[p].errors = errors'[p]]_vars
    /\ [](\A p \in Callers :
            /\ pc[p] = "persist_final" => idx[p] = TotalStocks /\ ops[p] = <<>>
            /\ pc[p] = "persist_failed" => idx[p] \in {0, TotalStocks} /\ ops[p] = <<>>)

\* C9 witness: the first batch has failed on a store error and the run is
\* writing the last batch.
C9_Witness ==
    \E p \in Callers :
        /\ pc[p] = "bulk_write"
        /\ bulk_exc[p] = "error"
        /\ retry_count[p] = 0
        /\ errors[p] = BatchSize
        /\ idx[p] = TotalStocks

\* C10: with no run in progress, the persisted status is a final one, with
\* finished_at set: it is 'running' only while a run is under way.
C10_FinalStatusPersisted ==
    (\A p \in Callers : ~InRun(p)) =>
        \A d \in statusDoc : d.status \in FinalStatuses /\ d.finished_at

(***************************************************************************)
(* Properties of the quote projection                                      *)
(***************************************************************************)
\* the day a trade_date string names, as the number YYYYMMDD
RECURSIVE DateValue(_)
DateValue(d) ==
    IF d = <<>> THEN 0
    ELSE LET c == d[Len(d)]
             front == SubSeq(d, 1, Len(d) - 1)
         IN IF c = "-" THEN DateValue(front)
            ELSE 10 * DateValue(front) + (Ord(c) - 48)

\* p has read the stored quote and decides in this step
Decides(q) == qpc[q] = "read_quote" /\ qpc'[q] # "read_quote"

\* C4: over any sequence of projections the stored trade_date never
\* decreases, and a projection offering a bar strictly older than the stored
\* quote returns without writing.
C4_TradeDateNeverDecreases ==
    [][/\ \A old \in marketQuote : \E new \in marketQuote' :
             DateValue(new.trade_date) >= DateValue(old.trade_date)
       /\ \A q \in Projs :
             (Decides(q) /\ \E e \in marketQuote, b \in latest_doc[q] :
                                DateValue(b.trade_date) < DateValue(e.trade_date))
             => qpc'[q] = "skipped" /\ marketQuote' = marketQuote]_vars

\* C4 witness: one projection has written the bar of a day, another then
\* offered an older bar and returned with the quote left as it was.
C4_Witness ==
    \E q1, q2 \in Projs :
        /\ qpc[q1] = "written"
        /\ marketQuote = {QuoteData(b) : b \in latest_doc[q1]}
        /\ qpc[q2] = "skipped"
        /\ existing_quote[q2] = marketQuote
        /\ \E b \in latest_doc[q2], e \in marketQuote :
              DateValue(b.trade_date) < DateValue(e.trade_date)

\* C5: once every projection has returned, the stored trade_date is no older
\* than any bar a projection offered or any quote a projection found stored.
C5_FinalIsMaximum ==
    NoProjection =>
        \A q \in Projs : \A x \in latest_doc[q] \cup existing_quote[q] :
            \E e \in marketQuote : DateValue(e.trade_date) >= DateValue(x.trade_date)

\* C6: the stored quote is overwritten only by a bar of a strictly later day
\* (or when nothing is stored); a bar of the stored quote's own day is not
\* written.
C6_OverwriteOnlyIfStrictlyNewer ==
    [][/\ marketQuote' # marketQuote =>
             \A old \in marketQuote, new \in marketQuote' :
                 DateValue(new.trade_date) > DateValue(old.trade_date)
       /\ \A q \in Projs :
             (Decides(q) /\ \E e \in marketQuote, b \in latest_doc[q] :
                                DateValue(b.trade_date) = DateValue(e.trade_date))
             => qpc'[q] = "skipped"]_vars

\* C6 witness: a projection offered a bar of the stored quote's day, at
\* another price, and returned with the quote left as it was.
C6_Witness ==
    \E q \in Projs :
        /\ qpc[q] = "skipped"
        /\ existing_quote[q] = marketQuote
        /\ \E b \in latest_doc[q], e \in marketQuote :
              /\ DateValue(b.trade_date) = DateValue(e.trade_date)
              /\ b.close # e.close

(***************************************************************************)
(* Properties of the health monitor                                        *)
(***************************************************************************)
\* a step in which source s is probed
Probed(s) ==
    /\ probes' = probes + 1
    /\ s \in DOMAIN metrics'
    /\ metrics'[s].last_check = probes'

\* the outcome of the latest probe of s, after the step
Outcome(s) == recent'[s][Len(recent'[s])]

\* C11: a failed probe increases consecutive_failures by exactly 1 and
\* leaves the status unavailable if consecutive_failures >= 3, degraded
\* otherwise; the status is then unavailable exactly when the last three
\* probes of the source all failed.
C11_FailedProbe ==
    [][\A s \in Providers :
          (Probed(s) /\ ~Outcome(s).success)
          => /\ metrics'[s].consecutive_failures = MetricsOf(s).consecutive_failures + 1
             /\ metrics'[s].status =
                   IF metrics'[s].consecutive_failures >= 3 THEN "unavailable" ELSE "degraded"
             /\ metrics'[s].status = "unavailable" <=>
                   /\ Len(recent'[s]) = 3
                   /\ \A i \in 1..3 : ~recent'[s][i].success]_vars

\* C11 witness: a source is unavailable after three failed probes in a row,
\* the first of them following a success.
C11_Witness ==
    \E s \in DOMAIN metrics :
        /\ metrics[s].status = "unavailable"
        /\ metrics[s].consecutive_failures = 3
        /\ metrics[s].success_count = 1
        /\ \A i \in 1..Len(recent[s]) : ~recent[s][i].success

\* C12: a successful probe leaves consecutive_failures at 0 and the status
\* healthy if the source has no failure recorded, degraded otherwise; a
\* source that was unavailable is no longer so at the next status query.
C12_SuccessfulProbe ==
    [][\A s \in Providers :
          (Probed(s) /\ Outcome(s).success)
          => /\ metrics'[s].consecutive_failures = 0
             /\ metrics'[s].failure_count = MetricsOf(s).failure_count
             /\ metrics'[s].status =
                   IF metrics'[s].failure_count = 0 THEN "healthy" ELSE "degraded"
             /\ get_health_status(s)' # "unavailable"]_vars

\* C12 witness: a source that three failures had made unavailable has been
\* probed successfully and is degraded.
C12_Witness ==
    \E s \in DOMAIN metrics :
        /\ metrics[s].status = "degraded"
        /\ metrics[s].consecutive_failures = 0
        /\ metrics[s].failure_count = 3
        /\ metrics[s].success_count = 1
        /\ recent[s][Len(recent[s])].success

\* C13: a probe that took more than 30 s is counted as a failure whatever it
\* returned: failure_count and consecutive_failures grow by one and the
\* status follows the failure rule.
C13_SlowProbeIsFailure ==
    [][\A s \in Providers :
          (Probed(s) /\ Outcome(s).response_time > 30)
          => /\ metrics'[s].failure_count = MetricsOf(s).failure_count + 1
             /\ metrics'[s].consecutive_failures = MetricsOf(s).consecutive_failures + 1
             /\ metrics'[s].status =
                   IF metrics'[s].consecutive_failures >= 3 THEN "unavailable" ELSE "degraded"]_vars

\* the latest failure_threshold probes of s all succeeded
RunOfSuccesses(s) ==
    /\ Len(recent[s]) = failure_threshold
    /\ \A i \in 1..Len(recent[s]) : recent[s][i].success

\* C29: a provider becomes healthy again after an uninterrupted run of
\* successful probes, whatever failures it recorded before: once its latest
\* failure_threshold probes all succeeded it is healthy and is not in
\* get_unhealthy_sources.
C29_HealthyAgainAfterSuccesses ==
    \A s \in DOMAIN metrics :
        RunOfSuccesses(s)
        => is_source_healthy(s) /\ s \notin get_unhealthy_sources

(***************************************************************************)
(* Properties of the L1 cache                                              *)
(***************************************************************************)
\* a step in which get(k) is called on the L1 cache
GetStep(k) ==
    /\ cache_ops' = cache_ops + 1
    /\ gets' = gets + 1
    /\ cache_ret'.key = k

\* a step in which set(k, ...) is called on the L1 cache
SetStep(k) ==
    /\ cache_ops' = cache_ops + 1
    /\ cache_ret'.op = "set"
    /\ cache_ret'.key = k

\* the L1 cache holds an entry for k whose created_at + ttl < now
Stale(k) ==
    \E i \in 1..Len(l1) :
        l1[i].key = k /\ l1[i].created_at + l1[i].ttl < now

\* the entry of the L1 cache whose latest successful get or set is the oldest
LeastRecent ==
    recency[CHOOSE i \in 1..Len(recency) :
               /\ recency[i] \in KeysOf(l1)
               /\ \A j \in 1..(i - 1) : recency[j] \notin KeysOf(l1)]

\* C14: hits + misses is the number of get calls: a get of an absent or
\* expired key adds one miss, any other get one hit, and no other operation
\* changes either counter.
C14_HitsPlusMisses ==
    /\ [](l1_hits + l1_misses = gets)
    /\ [][IF gets' = gets + 1
          THEN IF cache_ret'.key \notin KeysOf(l1) \/ Stale(cache_ret'.key)
               THEN l1_misses' = l1_misses + 1 /\ l1_hits' = l1_hits
               ELSE l1_hits' = l1_hits + 1 /\ l1_misses' = l1_misses
          ELSE l1_hits' = l1_hits /\ l1_misses' = l1_misses]_vars

\* C14 witness: a hit and a miss have been counted and the cache has been
\* cleared since.
C14_Witness ==
    /\ gets = 2
    /\ l1_hits = 1
    /\ l1_misses = 1
    /\ cache_ret.op = "clear"

\* C15: a get that finds an entry with created_at + ttl < now removes it and
\* reports a miss; a get that returns a value returns that of an entry with
\* created_at + ttl >= now.
C15_NoExpiredValue ==
    [][\A k \in CacheKeys :
          GetStep(k)
          => /\ Stale(k) => /\ cache_ret'.value = "None"
                            /\ k \notin KeysOf(l1')
                            /\ l1_misses' = l1_misses + 1
             /\ cache_ret'.value # "None" =>
                   /\ k \in KeysOf(l1)
                   /\ ~Stale(k)
                   /\ cache_ret'.value = EntryOf(l1, k).value]_vars

\* C15 witness: a get has found an expired entry, removed it and returned
\* nothing.
C15_Witness ==
    /\ cache_ret.op = "get"
    /\ cache_ret.found = "expired"
    /\ cache_ret.value = "None"
    /\ cache_ret.key \notin KeysOf(l1)
    /\ l1_misses = 1

\* C16: the L1 cache never holds more than max_size entries; a set of a new
\* key into a full cache evicts exactly the least recently used entry, and
\* no other set removes an entry.
C16_BoundedLRU ==
    /\ [](Len(l1) <= max_size /\ Cardinality(KeysOf(l1)) = Len(l1))
    /\ [][\A k \in CacheKeys :
            SetStep(k)
            => KeysOf(l1') =
                  IF k \in KeysOf(l1) \/ Len(l1) < max_size
                  THEN KeysOf(l1) \cup {k}
                  ELSE (KeysOf(l1) \ {LeastRecent}) \cup {k}]_vars

\* C16 witness: the cache is full after an eviction, and the entry evicted
\* was not the first inserted: a get had made an older entry more recent.
C16_Witness ==
    /\ cache_ret.op = "set"
    /\ Len(l1) = max_size
    /\ l1_hits = 1
    /\ Len(recency) = max_size + 1
    /\ recency[1] \notin KeysOf(l1)
    /\ \E i \in 1..Len(l1) : l1[i].created_at < now /\ l1[i].key = recency[Len(recency) - 1]

(***************************************************************************)
(* Properties of the two-level cache                                       *)
(***************************************************************************)
\* a step in which MultiLevelCache.get is called for key k
MlcGetStep(k) ==
    /\ cache_ops' = cache_ops + 1
    /\ cache_ret'.op = "mlc_get"
    /\ cache_ret'.key = k

\* L1 holds an entry for k that has not expired
L1Fresh(k) == k \in KeysOf(l1) /\ ~Stale(k)

\* L2 holds an entry for k that has not expired
L2Live(k) == \E e \in redis[k] : e.expire_at > now

\* C17: with L2 enabled, a get of a key of an L2 prefix that misses L1 and
\* hits L2 returns the L2 value and puts it into L1 under the prefix's ttl,
\* counted from now; a get of a key that L1 holds unexpired is served from
\* L1 without L2.
C17_PromotionToL1 ==
    [][\A k \in L2Keys :
          MlcGetStep(k)
          => /\ (/\ cache_policies[k[1]].level = "l2"
                 /\ redis_enabled
                 /\ ~L1Fresh(k)
                 /\ L2Live(k)
                 /\ cache_ret'.tier # "error")
                => /\ cache_ret'.tier = "l2"
                   /\ \E e \in redis[k] : cache_ret'.value = e.json
                   /\ \E i \in 1..Len(l1') :
                         /\ l1'[i].key = k
                         /\ l1'[i].value = cache_ret'.value
                         /\ l1'[i].ttl = cache_policies[k[1]].ttl
                         /\ l1'[i].created_at = now
             /\ L1Fresh(k)
                => /\ cache_ret'.tier = "l1"
                   /\ cache_ret'.value = EntryOf(l1, k).value
                   /\ l1_hits' = l1_hits + 1]_vars

\* C17 witness: two gets of a key of an L2 prefix and nothing else: the first
\* missed L1 and found the value in L2, the second was served from L1.
C17_Witness ==
    /\ cache_ops = 2
    /\ gets = 2
    /\ l1_misses = 1
    /\ l1_hits = 1
    /\ cache_ret.op = "mlc_get"
    /\ cache_ret.tier = "l1"
    /\ cache_policies[cache_ret.key[1]].level = "l2"

\* C18: after an invalidation, by key or by prefix, a get of an affected key
\* returns nothing until the key is set again.
C18_NoValueAfterInvalidation ==
    [][\A k \in L2Keys :
          (MlcGetStep(k) /\ k \in invalidated) => cache_ret'.value = "None"]_vars

(***************************************************************************)
(* DataConsistencyChecker properties                                       *)
(***************************************************************************)
\* the directive that the score bands give a score
Directive(score) ==
    IF 10 * score.num > 8 * score.den THEN "use_either"
    ELSE IF 10 * score.num > 6 * score.den THEN "use_primary_with_warning"
    ELSE IF 10 * score.num > 3 * score.den THEN "use_primary_only"
    ELSE "investigate_sources"

\* the sum over the compared fields of weight x max(0, 1 - delta / tolerance),
\* in ten-thousandths
RECURSIVE WeightedSum(_)
WeightedSum(comparisons) ==
    IF comparisons = {} THEN 0
    ELSE LET comp == CHOOSE c \in comparisons : TRUE
             part == IF comp.difference_pct >= comp.tolerance
                     THEN 0
                     ELSE 100 - (100 * comp.difference_pct) \div comp.tolerance
         IN metric_weights[comp.metric_name] * part
            + WeightedSum(comparisons \ {comp})

\* C19: every result the check returns carries the directive of its score:
\* use either source above 0.8, the primary with a warning above 0.6 up to
\* 0.8, the primary only above 0.3 up to 0.6, investigate at 0.3 or below.
C19_DirectiveFromScore ==
    chk_result # NoResult
    => chk_result.recommended_action = Directive(chk_result.confidence_score)

RECURSIVE WeightSum(_)
WeightSum(fields) ==
    IF fields = {} THEN 0
    ELSE LET f == CHOOSE x \in fields : TRUE
         IN metric_weights[f] + WeightSum(fields \ {f})

PeDiffers20 ==
    \E c \in chk_result.compared :
        c.metric_name = "pe" /\ c.difference_pct = 200

\* the check compared PB and total market value and found them equal
OthersAgree ==
    \A m \in Metrics \ {"pe"} :
        \E c \in chk_result.compared :
            c.metric_name = m /\ c.difference_pct = 0

C27_FlagSetWhileAnyRunInProgress ==
    (\E p \in Callers : InProgress(p)) => running

\* C30: a bulk write that succeeds adds none of its batch's records to the
\* error count, also when it reports no document inserted and none
\* modified: after it the count has grown by the rows skipped since, and a
\* run that ends with it, having counted no error before and skipped no row
\* since, has status success.
C30_SuccessfulWriteAddsNoErrors ==
    [][\A p \in Callers :
          (BatchEnds(p) /\ bulk_exc'[p] = "none")
          => /\ errors'[p] = errors[p] + ((idx'[p] - idx[p]) - Len(ops'[p]))
             /\ (/\ pc'[p] = "persist_final"
                 /\ errors[p] = 0
                 /\ idx'[p] - idx[p] = Len(ops'[p]))
                => stats'[p].status = "success"]_vars

\* C28: a set of a key already in the L1 cache restarts the entry's age: a
\* get at any time up to ttl after that set finds the entry fresh.
C28_SetRestartsAge ==
    [][\A k \in CacheKeys :
          (SetStep(k) /\ k \in KeysOf(l1))
          => \A t \in now..(now + EntryOf(l1', k).ttl) :
                LruGet(l1', k, t).found = "fresh"]_vars

(***************************************************************************)
(* NotificationsService properties                                         *)
(***************************************************************************)
\* the call has inserted its document and not yet returned
Created(p) == ntf_pc[p] \notin {"idle", "done"}

\* the call attempts its live delivery in this step
PublishStep(p) == ntf_pc[p] = "inserted" /\ ntf_pc'[p] = "published"

\* the call returns in this step
ReturnStep(p) == ntf_pc[p] = "cleaned" /\ ntf_pc'[p] = "done"

\* C22: the store has inserted the notification when its live delivery is
\* attempted; the attempt, sent or failed, leaves the store as it is, so a
\* notification the retention policy has not removed is in the list
\* afterwards; and the call returns the id of the document it inserted
\* whether the delivery was sent or failed.
C22_PersistThenPublish ==
    [][\A p \in Notifiers :
          /\ PublishStep(p)
             => /\ ntf_doc[p].id \in 1..(ntf_next_id - 1)
                /\ ntf_doc[p].created_at <= ntf_now
                /\ ntf_live[p] = "none"
                /\ ntf_store' = ntf_store
                /\ ntf_doc[p] \in ntf_store => ntf_doc[p].id \in List'
          /\ ReturnStep(p)
             => /\ ntf_live[p] \in {"sent", "failed"}
                /\ ntf_ret'[p] = ntf_doc[p].id
                /\ ntf_ret'[p] # 0]_vars

\* C22 witness: a call whose live delivery failed has returned, and its
\* notification is in the list.
C22_Witness ==
    \E p \in Notifiers :
        /\ ntf_pc[p] = "done"
        /\ ntf_live[p] = "failed"
        /\ ntf_ret[p] \in List

\* the step completes a create_and_publish call and leaves none under way
LastReturnStep(p) ==
    /\ ReturnStep(p)
    /\ \A q \in Notifiers \ {p} : ntf_pc[q] \in {"idle", "done"}

\* the step deletes documents while the collection is over its quota
QuotaStep(p) == ntf_pc[p] = "found" /\ ntf_pc'[p] = "cleaned"

EnabledWithRecord ==
    {g \in stk_groupings : g.enabled /\ Matching(stk_docs, g.data_source_name) # {}}

\* get_stock_info without a source has just returned, the priorities read
\* from the configuration
ReadByPriority ==
    /\ stk_op.op = "get"
    /\ stk_op.source = "None"
    /\ stk_op.ok

\* C24: a read without a source returns the record of the enabled provider
\* with the lowest priority integer among those that have a record.
C24_LowestIntegerWins ==
    (ReadByPriority /\ EnabledWithRecord # {})
    => /\ stk_ret.found
       /\ \E g \in EnabledWithRecord :
             /\ g.data_source_name = stk_ret.source
             /\ \A h \in EnabledWithRecord : g.priority <= h.priority

\* the documents without their updated_at
WithoutUpdatedAt(docs) ==
    {[id |-> d.id, source |-> d.source, name |-> d.name] : d \in docs}

\* the step upserts a provider's record
UpsertStep(source, name) ==
    /\ stk_clock' = stk_clock + 1
    /\ stk_op'.op = "upsert"
    /\ stk_op'.source = source
    /\ stk_op'.name = name

\* C25: an upsert leaves exactly one document for its (code, source), and
\* the upsert of a record the store already holds leaves every field of
\* every document but updated_at as it was and creates no document.
C25_UpsertIdempotent ==
    [][\A source \in StockSources, name \in StockNames :
          UpsertStep(source, name)
          => /\ Cardinality(Matching(stk_docs', source)) = 1
             /\ (\E d \in Matching(stk_docs, source) : d.name = name)
                => /\ WithoutUpdatedAt(stk_docs') = WithoutUpdatedAt(stk_docs)
                   /\ Cardinality(stk_docs') = Cardinality(stk_docs)]_vars

\* C25 witness: a record was upserted a second time; its document carries
\* the time of the second upsert and the other provider's document is
\* stored too.
C25_Witness ==
    /\ stk_op.op = "upsert"
    /\ stk_op.again
    /\ Cardinality(stk_docs) = Cardinality(StockSources)
    /\ \E d \in Matching(stk_docs, stk_op.source) :
          d.name = stk_op.name /\ d.updated_at = stk_clock

(***************************************************************************)
(* patched requests.get properties                                         *)
(***************************************************************************)
\* C26: an HTTP GET to the host is started at least 0.5 s after the one
\* started before it, whichever threads start them.
C26_RequestsHalfASecondApart ==
    [][(rl_gets' = rl_gets + 1 /\ rl_gets > 0)
          => rl_started' - rl_started >= request_interval]_vars

====
